---- MODULE Spec2Model ----
(***************************************************************************)
(* RowBoy menu framework: MenuItem values, the InputMapper, the MenuBase / *)
(* EditMenu update cycle and the menu stack, as state machines.            *)
(***************************************************************************)
EXTENDS Integers, Sequences, FiniteSets, TLC

VARIABLES
  now,             \* millis()
  menus,           \* the EditMenu instances, by id
  menuStack,       \* static std::vector<EditMenu*> menuStack
  rootMenu,        \* static EditMenu* rootMenu (0 is nullptr)
  inputLockUntil,  \* static unsigned long inputLockUntil
  ctlS,            \* InputMapper::_s of the global `controls`
  pad,             \* the live controller read by the gp*() hooks
  blinkState,      \* static bool blinkState of EditMenu::update
  lastSave,        \* static unsigned long lastSave of EditMenu::_editAdjust
  sdDoc,           \* the document stored under the autosave path on the card
  gp,              \* the statics of gamepad.cpp, the BP32 switch and the LED
  last,            \* the last call made and what it returned
  hist             \* observations kept for the properties

vars == <<now, menus, menuStack, rootMenu, inputLockUntil, ctlS, pad,
          blinkState, lastSave, sdDoc, gp, last, hist>>

-----------------------------------------------------------------------------
(* Integer widths (ESP32: long is 32 bits, uint16_t 16 bits).              *)

LONG_MAX == 2147483647
LONG_MIN == -2147483647 - 1

\* a + b in a 32-bit long, wrapping in two's complement (what the build
\* makes of the overflow), computed without leaving the 32-bit range
Add32(a, b) ==
  IF b > 0 /\ a > LONG_MAX - b THEN (a - LONG_MAX) + (b - LONG_MAX) - 2
  ELSE IF b < 0 /\ a < LONG_MIN - b THEN (a - LONG_MIN) + (b - LONG_MIN)
  ELSE a + b

\* a * dir in a 32-bit long, for dir = 1 or dir = -1
MulDir32(a, dir) ==
  IF dir = 1 THEN a ELSE IF a = LONG_MIN THEN LONG_MIN ELSE -a

\* store into a uint16_t
U16(x) == x % 65536

\* Arduino constrain(amt, low, high)
Constrain(amt, low, high) ==
  IF amt < low THEN low ELSE IF amt > high THEN high ELSE amt

NullMenu == 0

-----------------------------------------------------------------------------
(* MenuItem                                                                *)

\* makeLabel
makeLabel ==
  [edit |-> "NONE", minV |-> 0, maxV |-> 0, step |-> 1, value |-> 0,
   count |-> 0, index |-> 0, submenu |-> NullMenu, onChange |-> FALSE,
   enabled |-> TRUE, text |-> ""]

\* makeRange
makeRange(v, minV, maxV, step) ==
  [makeLabel EXCEPT !.edit = "RANGE", !.value = v, !.minV = minV,
                    !.maxV = maxV, !.step = step]

\* makeArray
makeArray(n, idx) ==
  [makeLabel EXCEPT !.edit = "ARRAY", !.count = n, !.index = idx]

\* MenuItem::value
ItemValue(it) ==
  IF it.edit = "RANGE" THEN it.value
  ELSE IF it.edit = "ARRAY" THEN it.index
  ELSE 0

\* MenuItem::setValue
ItemSetValue(it, v) ==
  IF it.edit = "RANGE" THEN [it EXCEPT !.value = v]
  ELSE IF it.edit = "ARRAY" /\ it.count # 0
    THEN [it EXCEPT !.index = U16(Constrain(v, 0, it.count - 1))]
  ELSE it

\* the mutation of the item done by EditMenu::_editAdjust, without the clamp
ItemAdjustNoClamp(it, dir) ==
  IF it.edit = "RANGE"
    THEN [it EXCEPT !.value = Add32(it.value, MulDir32(it.step, dir))]
  ELSE IF it.edit = "ARRAY"
    THEN [it EXCEPT !.index = U16(it.index + dir)]
  ELSE it

\* the mutation of the item done by EditMenu::_editAdjust, stepping a RANGE
\* by one instead of by its step
ItemAdjustUnitStep(it, dir) ==
  IF it.edit = "RANGE"
    THEN [it EXCEPT !.value = Constrain(Add32(it.value, dir), it.minV, it.maxV)]
  ELSE IF it.edit = "ARRAY"
    THEN [it EXCEPT !.index = U16((it.index + dir + it.count) % it.count)]
  ELSE it

\* the mutation of the item done by EditMenu::_editAdjust
ItemAdjust(it, dir) ==
  IF it.edit = "RANGE"
    THEN [it EXCEPT !.value =
            Constrain(Add32(it.value, MulDir32(it.step, dir)), it.minV, it.maxV)]
  ELSE IF it.edit = "ARRAY"
    THEN [it EXCEPT !.index = U16((it.index + dir + it.count) % it.count)]
  ELSE it

-----------------------------------------------------------------------------
(* Program constants                                                       *)

REPEAT_INITIAL_MS == 400
REPEAT_HOLD_MS == 220
REPEAT_FAST_MS == 120
REPEAT_AFTER_MS == 800
DEADZONE == 200
GamepadDeadzone == 200   \* const int16_t dz in InputMapper::_readGamepad
BackLockMs == 200        \* inputLockUntil = millis() + 200 on a back edge
PushLockMs == 150        \* inputLockUntil = millis() + 150 on a submenu push
BlinkMs == 300           \* (now / 300) % 2 in EditMenu::update
SaveThrottleMs == 300    \* now - lastSave > 300 in EditMenu::_editAdjust

(* Bounds of the model                                                     *)

TickMs == 100       \* granularity of the time the main loop is observed at
MaxTime == 700      \* the loop is followed while millis() <= MaxTime
MaxApiCalls == 3    \* host calls of setRootMenu / pushMenu / popMenu followed
MaxArrayCount == 3  \* ARRAY items drawn with 1..MaxArrayCount choices

MenuIds == {1, 2, 3}

-----------------------------------------------------------------------------
(* InputMapper (controls.h / controls.cpp)                                 *)

\* ControlState{}
ControlState0 ==
  [up |-> FALSE, down |-> FALSE, left |-> FALSE, right |-> FALSE,
   confirm |-> FALSE, back |-> FALSE, menu |-> FALSE, alt |-> FALSE,
   start |-> FALSE, select |-> FALSE,
   confirmLast |-> FALSE, backLast |-> FALSE,
   confirmConsumed |-> FALSE, backConsumed |-> FALSE]

\* GamepadState() / a controller that is not connected
PadNeutral ==
  [connected |-> FALSE, lx |-> 0, ly |-> 0, rx |-> 0, ry |-> 0, dpad |-> {},
   a |-> FALSE, b |-> FALSE, x |-> FALSE, y |-> FALSE,
   start |-> FALSE, select |-> FALSE]

\* the gp*() hooks of gamepad.cpp: every one is false / 0 without a link
gamepadConnected(p) == p.connected
gpLX(p) == IF p.connected THEN p.lx ELSE 0
gpLY(p) == IF p.connected THEN p.ly ELSE 0
gpUp(p) == p.connected /\ "up" \in p.dpad
gpDown(p) == p.connected /\ "down" \in p.dpad
gpRight(p) == p.connected /\ "right" \in p.dpad
gpLeft(p) == p.connected /\ "left" \in p.dpad
gpA(p) == p.connected /\ p.a
gpB(p) == p.connected /\ p.b
gpX(p) == p.connected /\ p.x
gpY(p) == p.connected /\ p.y
gpStart(p) == p.connected /\ p.start
gpSelect(p) == p.connected /\ p.select

\* InputMapper::InputMapper: the default bindings
MapConfirm == "A"
MapBack == "B"
MapMenu == "START"
MapAlt == "SELECT"

\* the lambda btnState of InputMapper::_readGamepad
btnState(p, id) ==
  CASE id = "A" -> gpA(p)
    [] id = "B" -> gpB(p)
    [] id = "X" -> gpX(p)
    [] id = "Y" -> gpY(p)
    [] id = "START" -> gpStart(p)
    [] id = "SELECT" -> gpSelect(p)
    [] OTHER -> FALSE

\* InputMapper::_readGamepad
readGamepad(s, p) ==
  IF ~gamepadConnected(p) THEN s
  ELSE [s EXCEPT
          !.up = gpUp(p) \/ gpLY(p) < -GamepadDeadzone,
          !.down = gpDown(p) \/ gpLY(p) > GamepadDeadzone,
          !.left = gpLeft(p) \/ gpLX(p) < -GamepadDeadzone,
          !.right = gpRight(p) \/ gpLX(p) > GamepadDeadzone,
          !.confirm = btnState(p, MapConfirm),
          !.back = btnState(p, MapBack),
          !.menu = btnState(p, MapMenu),
          !.alt = btnState(p, MapAlt),
          !.start = gpStart(p),
          !.select = gpSelect(p)]

\* InputMapper::update that forgets the previous levels
controlsUpdateNoLast(s, mode, p) ==
  IF mode = "GAMEPAD" THEN readGamepad(ControlState0, p) ELSE ControlState0

\* what menuGetTouch reports at a poll, next to a controller without link:
\* whether a touch sample is there, and whether it is a tap
TouchInput(touched, tap) ==
  [connected |-> FALSE, lx |-> 0, ly |-> 0, rx |-> 0, ry |-> 0, dpad |-> {},
   a |-> FALSE, b |-> FALSE, x |-> FALSE, y |-> FALSE,
   start |-> FALSE, select |-> FALSE, touched |-> touched, tap |-> tap]

\* InputMapper::_readTouch
readTouch(s, p) == IF p.touched THEN [s EXCEPT !.confirm = p.tap] ELSE s

\* the pins of config.h a board can wire (MENU_BTN_*_PIN, MENU_ENC_*_PIN)
MechPins ==
  {"up", "down", "ok", "back", "start", "select", "encA", "encB", "encBtn"}

\* what the GPIO pins show at a poll, next to a controller without link:
\* wired holds the pins whose number is >= 0, low those that read LOW
MechInput(wired, low) ==
  [connected |-> FALSE, lx |-> 0, ly |-> 0, rx |-> 0, ry |-> 0, dpad |-> {},
   a |-> FALSE, b |-> FALSE, x |-> FALSE, y |-> FALSE,
   start |-> FALSE, select |-> FALSE, wired |-> wired, low |-> low]

\* if (PIN >= 0) ... (digitalRead(PIN) == LOW)
pinLow(p, pin) == pin \in p.wired /\ pin \in p.low

\* InputMapper::_readMechanical with the encoder's A / B pins read as left
\* and right
readMechanicalTurns(s, p) ==
  [s EXCEPT !.up = pinLow(p, "up"),
            !.down = pinLow(p, "down"),
            !.left = pinLow(p, "encA"),
            !.right = pinLow(p, "encB"),
            !.confirm = pinLow(p, "ok") \/ pinLow(p, "encBtn"),
            !.back = pinLow(p, "back"),
            !.start = pinLow(p, "start"),
            !.select = pinLow(p, "select")]

\* InputMapper::_readMechanical
readMechanical(s, p) ==
  [s EXCEPT !.up = pinLow(p, "up"),
            !.down = pinLow(p, "down"),
            !.confirm = pinLow(p, "ok") \/ pinLow(p, "encBtn"),
            !.back = pinLow(p, "back"),
            !.start = pinLow(p, "start"),
            !.select = pinLow(p, "select")]

\* InputMapper::update
controlsUpdate(s, mode, p) ==
  LET s0 == [ControlState0 EXCEPT !.confirmLast = s.confirm,
                                  !.backLast = s.back]
  IN IF mode = "GAMEPAD" THEN readGamepad(s0, p)
     ELSE IF mode = "TOUCH" THEN readTouch(s0, p)
     ELSE readMechanical(s0, p)

\* the level of the confirm input a poll shows to a menu of the given mode
confirmLevel(mode, p) ==
  IF mode = "TOUCH" THEN p.touched /\ p.tap
  ELSE IF mode = "MECH" THEN pinLow(p, "ok") \/ pinLow(p, "encBtn")
  ELSE btnState(p, MapConfirm)

\* the level of the back input a poll shows to a menu of the given mode
backLevel(mode, p) ==
  IF mode = "TOUCH" THEN FALSE
  ELSE IF mode = "MECH" THEN pinLow(p, "back")
  ELSE btnState(p, MapBack)

\* InputMapper::confirmPressed / backPressed
confirmPressed(s) == s.confirm /\ ~s.confirmLast /\ ~s.confirmConsumed
backPressed(s) == s.back /\ ~s.backLast /\ ~s.backConsumed

\* InputMapper::consumeConfirm / consumeBack
consumeConfirm(s) == [s EXCEPT !.confirmConsumed = TRUE]
consumeBack(s) == [s EXCEPT !.backConsumed = TRUE]

-----------------------------------------------------------------------------
(* gamepad.cpp: controller link, pairing button, LED and the snapshot      *)
(* g is the record of the file's statics; t is millis() during the poll    *)

HOLD_TIME_MS == 3000
FLASH_TIME_MS == 30000
BLINK_PERIOD_MS == 250
DEBOUNCE_MS == 50
LED_BRIGHT == 40
SetupDelayMs == 300  \* delay(300) of setupGamepad

\* the statics of gamepad.cpp after setupGamepad(), with the acceptance
\* switch of BP32 (accept) and the LED duty written last (led)
Gp0 ==
  [ctl |-> FALSE, connected |-> FALSE, pairingMode |-> FALSE,
   pressStart |-> 0, lastBlink |-> 0, pairingStart |-> 0,
   buttonLast |-> FALSE, ledState |-> FALSE, firstLoop |-> TRUE,
   state |-> PadNeutral, lastDebounce |-> 0, debounced |-> FALSE,
   accept |-> FALSE, led |-> 0]

\* what one updateGamepad() did
PadEv0 ==
  [cb |-> "none", first |-> FALSE, started |-> FALSE, timedOut |-> FALSE,
   autoStopped |-> FALSE,
   prePairing |-> FALSE, preAccept |-> FALSE, preState |-> PadNeutral]

\* onConnectedController
onConnectedController(r) ==
  [r EXCEPT !.g.ctl = TRUE, !.g.connected = TRUE, !.g.pairingMode = FALSE,
            !.g.pressStart = 0, !.g.led = LED_BRIGHT]

\* onDisconnectedController
onDisconnectedController(r) ==
  [r EXCEPT !.g.ctl = FALSE, !.g.connected = FALSE, !.g.led = 0]

\* startPairing
startPairing(r, t) ==
  [r EXCEPT !.g.pairingMode = TRUE, !.g.pairingStart = t,
            !.g.lastBlink = t, !.g.ledState = FALSE,
            !.g.accept = TRUE, !.g.led = 0,
            !.ev.started = TRUE]

\* stopPairing
stopPairing(r) ==
  [r EXCEPT !.g.pairingMode = FALSE, !.g.accept = FALSE, !.g.led = 0]

\* BP32.update(): the callback it delivers, if any
bp32Update(r, cb) ==
  IF cb = "connect" THEN onConnectedController(r)
  ELSE IF cb = "disconnect" THEN onDisconnectedController(r)
  ELSE r

\* updateGamepad, the snapshot (119-134), keeping the last sample when the
\* link is down
snapshotKeepsStale(r, p) ==
  IF ~r.g.ctl \/ ~p.connected
    THEN [r EXCEPT !.g.connected = FALSE]
    ELSE [r EXCEPT !.g.connected = TRUE,
                   !.g.state = [@ EXCEPT !.connected = TRUE,
                                  !.lx = p.lx, !.ly = p.ly,
                                  !.rx = p.rx, !.ry = p.ry,
                                  !.dpad = p.dpad,
                                  !.a = p.a, !.b = p.b, !.x = p.x, !.y = p.y]]

\* updateGamepad, the snapshot (119-134); p is the live controller
snapshot(r, p) ==
  IF ~r.g.ctl \/ ~p.connected
    THEN [r EXCEPT !.g.connected = FALSE, !.g.state = PadNeutral]
    ELSE [r EXCEPT !.g.connected = TRUE,
                   !.g.state = [@ EXCEPT !.connected = TRUE,
                                  !.lx = p.lx, !.ly = p.ly,
                                  !.rx = p.rx, !.ry = p.ry,
                                  !.dpad = p.dpad,
                                  !.a = p.a, !.b = p.b, !.x = p.x, !.y = p.y]]

\* updateGamepad, the button debounce (137-145); btn is !digitalRead(BTN_PIN)
debounce(r, t, btn) ==
  IF t - r.g.lastDebounce >= DEBOUNCE_MS
    THEN [r EXCEPT !.g.debounced = btn, !.g.lastDebounce = t]
    ELSE r

\* updateGamepad, the press bookkeeping (155-159)
pressEdges(r, t) ==
  LET ps == IF r.g.debounced /\ ~r.g.buttonLast THEN t
            ELSE IF ~r.g.debounced /\ r.g.buttonLast THEN 0
            ELSE r.g.pressStart
  IN [r EXCEPT !.g.pressStart = ps, !.g.buttonLast = r.g.debounced]

\* updateGamepad, the long hold (162-165) starting pairing after any hold
longHoldNoWait(r, t) ==
  IF r.g.debounced /\ ~r.g.connected /\ ~r.g.pairingMode
       /\ r.g.pressStart # 0
    THEN startPairing(r, t)
    ELSE r

\* updateGamepad, the long hold (162-165)
longHold(r, t) ==
  IF r.g.debounced /\ ~r.g.connected /\ ~r.g.pairingMode
       /\ r.g.pressStart # 0 /\ t - r.g.pressStart >= HOLD_TIME_MS
    THEN startPairing(r, t)
    ELSE r

\* updateGamepad, the blink of the pairing LED (173-177)
pairingBlink(r, t) ==
  IF t - r.g.lastBlink >= BLINK_PERIOD_MS
    THEN [r EXCEPT !.g.lastBlink = t, !.g.ledState = ~@,
                   !.g.led = IF ~r.g.ledState THEN LED_BRIGHT ELSE 0]
    ELSE r

\* updateGamepad, the pairing timeout (179-180) that never fires
pairingTimeoutNever(r, t) == r

\* updateGamepad, the pairing timeout (179-180)
pairingTimeout(r, t) ==
  IF t - r.g.pairingStart >= FLASH_TIME_MS
    THEN [stopPairing(r) EXCEPT !.ev.timedOut = TRUE]
    ELSE r

\* updateGamepad, the LED feedback (171-189)
ledFeedback(r, t) ==
  IF r.g.pairingMode /\ ~r.g.connected
    THEN CHOOSE x \in {pairingTimeout(b, t) : b \in {pairingBlink(r, t)}} : TRUE
  ELSE IF r.g.connected THEN [r EXCEPT !.g.led = LED_BRIGHT]
  ELSE [r EXCEPT !.g.led = 0]

\* updateGamepad, the auto-stop (192-193)
autoStop(r) ==
  IF r.g.connected /\ r.g.pairingMode
    THEN [stopPairing(r) EXCEPT !.ev.autoStopped = TRUE]
    ELSE r

\* updateGamepad after the debounce, the first call treated as any other
afterDebounceNoSkip(r, t) ==
  CHOOSE x \in
    {autoStop(l) :
       l \in {ledFeedback(h, t) :
         h \in {longHold(e, t) : e \in {pressEdges(r, t)}}}} : TRUE

\* updateGamepad after the debounce: the first call only records the button
afterDebounce(r, t) ==
  IF r.g.firstLoop
    THEN [r EXCEPT !.g.firstLoop = FALSE, !.g.buttonLast = r.g.debounced,
                   !.ev.first = TRUE]
    ELSE CHOOSE x \in
           {autoStop(l) :
              l \in {ledFeedback(h, t) :
                h \in {longHold(e, t) : e \in {pressEdges(r, t)}}}} : TRUE

\* updateGamepad at time t: cb is the callback BP32.update() delivers, p the
\* live controller, btn the level of the pairing button
updateGamepad(g, t, cb, p, btn) ==
  CHOOSE x \in
    {afterDebounce(d, t) :
       d \in {debounce(s, t, btn) :
         s \in {snapshot(c, p) :
           c \in {bp32Update(r0, cb) :
             r0 \in {[g |-> g,
                      ev |-> [PadEv0 EXCEPT !.cb = cb,
                                !.prePairing = g.pairingMode,
                                !.preAccept = g.accept,
                                !.preState = g.state]]}}}}} : TRUE

-----------------------------------------------------------------------------
(* MenuBase / EditMenu (MenuUI.h / MenuUI.cpp)                             *)

\* MenuBase::MenuBase and the member initialisers of MenuBase / EditMenu
NewMenu(orient) ==
  [orientation |-> orient, mode |-> "GAMEPAD", items |-> <<>>, count |-> 0,
   sel |-> 0, firstVisible |-> 0, dirty |-> TRUE, activatedIndex |-> -1,
   navDir |-> 0, navActive |-> FALSE, navNext |-> 0, navStart |-> 0,
   editing |-> FALSE, autosave |-> FALSE,
   editDir |-> 0, editActive |-> FALSE, editNext |-> 0, editStart |-> 0,
   deadzone |-> DEADZONE,
   initialRepeatDelay |-> REPEAT_INITIAL_MS,
   holdRepeatDelay |-> REPEAT_HOLD_MS,
   fastRepeatDelay |-> REPEAT_FAST_MS,
   fastRepeatAfter |-> REPEAT_AFTER_MS]

\* MenuItem _items[MAX_OPT]: slot i (0-based); slots past _count are
\* default-constructed items
ItemAt(mu, i) == IF i + 1 \in DOMAIN mu.items THEN mu.items[i + 1] ELSE makeLabel

\* MenuBase::addItem below capacity, and MenuBase::linkSubmenu
WithItem(mu, it) ==
  [mu EXCEPT !.items = Append(@, it), !.count = @ + 1, !.dirty = TRUE]

\* #define MAX_OPT
MAX_OPT == 15

\* MenuBase::addItem without the capacity test
addItemUnchecked(mu, it) == WithItem(mu, it)

\* MenuBase::addItem: the menu after it
addItem(mu, it) == IF mu.count >= MAX_OPT THEN mu ELSE WithItem(mu, it)

\* MenuBase::addItem: the result
addItemResult(mu) == mu.count < MAX_OPT

\* MenuBase::getItemValue
getItemValue(mu, idx) == IF idx < mu.count THEN ItemValue(ItemAt(mu, idx)) ELSE 0

\* MenuBase::setItemValue
setItemValue(mu, idx, v) ==
  IF idx < mu.count
    THEN [mu EXCEPT !.items[idx + 1] = ItemSetValue(@, v)]
    ELSE mu

\* MenuBase::setItemEnabled
setItemEnabled(mu, idx, en) ==
  IF idx < mu.count THEN [mu EXCEPT !.items[idx + 1].enabled = en] ELSE mu

\* MenuBase::setItemText
setItemText(mu, idx, s) ==
  IF idx < mu.count THEN [mu EXCEPT !.items[idx + 1].text = s] ELSE mu

\* MenuBase::setOrientation
setOrientation(mu, o) == [mu EXCEPT !.orientation = o, !.dirty = TRUE]

\* MenuBase::setTheme; of the theme the menu keeps, the orientation is the
\* part the model follows
setTheme(mu, th) == [mu EXCEPT !.orientation = th.orientation, !.dirty = TRUE]

\* MenuBase::_moveSel
moveSel(mu, delta) ==
  LET newSel == Constrain(mu.sel + delta, 0, mu.count - 1)
  IN IF newSel # mu.sel
       THEN [mu EXCEPT !.sel = U16(newSel), !.dirty = TRUE]
       ELSE mu

\* dirFromOrientation
dirFromOrientation(orient, left, right, up, down) ==
  IF orient = "HORIZONTAL"
    THEN (IF left THEN -1 ELSE IF right THEN 1 ELSE 0)
    ELSE (IF up THEN -1 ELSE IF down THEN 1 ELSE 0)

\* the delay chosen after a repeat move, with the two rates swapped
repeatDelaySwapped(mu, elapsed) ==
  IF elapsed >= mu.fastRepeatAfter THEN mu.holdRepeatDelay
  ELSE mu.fastRepeatDelay

\* the delay chosen after a repeat move (MenuUI.cpp 284-286, 436-438)
repeatDelay(mu, elapsed) ==
  IF elapsed >= mu.fastRepeatAfter THEN mu.fastRepeatDelay
  ELSE mu.holdRepeatDelay

\* the first delay of a hold, taken from the hold rate
firstDelayShort(mu) == mu.holdRepeatDelay

\* the first delay of a hold (MenuUI.cpp 280, 432)
firstDelay(mu) == mu.initialRepeatDelay

\* the navigation repeat timer of MenuBase::_handleGamepad (269-288):
\* the menu after it and the branch taken
navStep(mu, d, t) ==
  IF d = 0
    THEN [mu |-> [mu EXCEPT !.navActive = FALSE, !.navDir = 0], branch |-> "idle"]
  ELSE IF ~mu.navActive \/ d # mu.navDir
    THEN [mu |-> [moveSel(mu, d) EXCEPT !.navActive = TRUE, !.navDir = d,
                    !.navStart = t, !.navNext = t + firstDelay(mu)],
          branch |-> "fresh"]
  ELSE IF t >= mu.navNext
    THEN [mu |-> [moveSel(mu, d) EXCEPT
                    !.navNext = t + repeatDelay(mu, t - mu.navStart)],
          branch |-> "repeat"]
  ELSE [mu |-> mu, branch |-> "wait"]

RECURSIVE DigitsOf(_)
\* the decimal digits of n >= 0, most significant first
DigitsOf(n) ==
  IF n < 10 THEN <<n>> ELSE Append(DigitsOf(n \div 10), n % 10)

RECURSIVE DigitsOfNeg(_)
\* the decimal digits of -n for n < 0, computed without negating n
DigitsOfNeg(n) ==
  LET d == (10 - (n % 10)) % 10
  IN IF n > -10 THEN <<d>> ELSE Append(DigitsOfNeg((n + d) \div 10), d)

\* String(i): the key an item index is stored under
keyOf(i) == DigitsOf(i)

\* the JSON number serializeJsonPretty writes for a long
jsonNumber(v) ==
  [neg |-> v < 0, digits |-> IF v < 0 THEN DigitsOfNeg(v) ELSE DigitsOf(v)]

RECURSIVE foldDigits(_, _, _)
foldDigits(ds, neg, acc) ==
  IF ds = <<>> THEN acc
  ELSE foldDigits(Tail(ds), neg,
                  IF neg THEN acc * 10 - Head(ds) ELSE acc * 10 + Head(ds))

\* doc[key].as<long>() of a JSON number that fits a long
asLong(num) == foldDigits(num.digits, num.neg, 0)

\* saveMenuSettings storing item i under the key of i + 1
saveMenuSettingsOneBased(mu, doc, sdOk) ==
  IF ~sdOk THEN doc
  ELSE [exists |-> TRUE, bad |-> FALSE,
        kv |-> {<<keyOf(i + 1), jsonNumber(getItemValue(mu, i))>> :
                  i \in 0..(mu.count - 1)}]

\* saveMenuSettings: the document written (every item's value under the key
\* of its index), or the old content when SD.open fails
saveMenuSettings(mu, doc, sdOk) ==
  IF ~sdOk THEN doc
  ELSE [exists |-> TRUE, bad |-> FALSE,
        kv |-> {<<keyOf(i), jsonNumber(getItemValue(mu, i))>> :
                  i \in 0..(mu.count - 1)}]

\* what one update() call did, for the observations
Ev0 ==
  [navRan |-> FALSE, d |-> 0, branch |-> "none", editRan |-> FALSE,
   adjusts |-> 0, confirmSeen |-> FALSE, backSeen |-> FALSE,
   popped |-> FALSE, pushed |-> FALSE, draws |-> 0, onChange |-> <<>>,
   saves |-> 0, edgeC |-> FALSE, edgeB |-> FALSE]

-----------------------------------------------------------------------------
(* The menu stack (MenuUI.cpp 45-68)                                       *)

\* currentMenu
currentMenu(stk) == IF stk = <<>> THEN NullMenu ELSE stk[Len(stk)]

\* pushMenu: the stack after it
stackPush(stk, m) == IF m = NullMenu THEN stk ELSE Append(stk, m)

\* setRootMenu that appends to the stack without clearing it
stackSetRootKeep(stk, m) == IF m = NullMenu THEN stk ELSE Append(stk, m)

\* setRootMenu: the stack after it
stackSetRoot(stk, m) == IF m = NullMenu THEN <<>> ELSE <<m>>

\* popMenu without the size guard
stackPopUnguarded(stk) ==
  IF stk = <<>> THEN stk ELSE SubSeq(stk, 1, Len(stk) - 1)

\* popMenu: the stack after it
stackPop(stk) ==
  IF Len(stk) <= 1 THEN stk ELSE SubSeq(stk, 1, Len(stk) - 1)

\* popMenu: the menu returned
popResult(stk) == IF Len(stk) <= 1 THEN NullMenu ELSE currentMenu(stackPop(stk))

\* forceRedraw of menu m (nothing for nullptr)
forceRedraw(ms, m) ==
  IF m \in DOMAIN ms THEN [ms EXCEPT ![m].dirty = TRUE] ELSE ms

-----------------------------------------------------------------------------
(* One update() call, as a function of the machine state                   *)
(* st = [menus, menuStack, inputLockUntil, ctlS, blinkState, lastSave,     *)
(*       sdDoc, ev, ret]; t is millis() during the call.                   *)

\* EditMenu::_editAdjust with the callback invoked on every adjust of an item
\* that has one, changed value or not
editAdjustAlwaysCalls(st, m, dir, t, sdOk) ==
  LET mu == st.menus[m]
      it == ItemAt(mu, mu.sel)
      it2 == ItemAdjust(it, dir)
      mu2 == [mu EXCEPT
                !.items = IF mu.sel + 1 \in DOMAIN @
                            THEN [@ EXCEPT ![mu.sel + 1] = it2] ELSE @,
                !.dirty = TRUE]
      doSave == mu.autosave /\ t - st.lastSave > SaveThrottleMs
  IN [st EXCEPT
        !.menus[m] = mu2,
        !.ev.adjusts = @ + 1,
        !.ev.onChange = IF it.onChange THEN Append(@, ItemValue(it2)) ELSE @,
        !.sdDoc = IF doSave THEN saveMenuSettings(mu2, @, sdOk) ELSE @,
        !.ev.saves = IF doSave /\ sdOk THEN @ + 1 ELSE @,
        !.lastSave = IF doSave THEN t ELSE @]

\* EditMenu::_editAdjust saving on every adjust of an autosaving menu, with
\* no throttle
editAdjustNoThrottle(st, m, dir, t, sdOk) ==
  LET mu == st.menus[m]
      it == ItemAt(mu, mu.sel)
      it2 == ItemAdjust(it, dir)
      mu2 == [mu EXCEPT
                !.items = IF mu.sel + 1 \in DOMAIN @
                            THEN [@ EXCEPT ![mu.sel + 1] = it2] ELSE @,
                !.dirty = TRUE]
      called == it.onChange /\ ItemValue(it2) # ItemValue(it)
  IN [st EXCEPT
        !.menus[m] = mu2,
        !.ev.adjusts = @ + 1,
        !.ev.onChange = IF called THEN Append(@, ItemValue(it2)) ELSE @,
        !.sdDoc = IF mu.autosave THEN saveMenuSettings(mu2, @, sdOk) ELSE @,
        !.ev.saves = IF mu.autosave /\ sdOk THEN @ + 1 ELSE @,
        !.lastSave = IF mu.autosave THEN t ELSE @]

\* EditMenu::_editAdjust on menu m
editAdjust(st, m, dir, t, sdOk) ==
  LET mu == st.menus[m]
      it == ItemAt(mu, mu.sel)
      oldVal == ItemValue(it)
      it2 == ItemAdjust(it, dir)
      newVal == ItemValue(it2)
      mu2 == [mu EXCEPT
                !.items = IF mu.sel + 1 \in DOMAIN @
                            THEN [@ EXCEPT ![mu.sel + 1] = it2] ELSE @,
                !.dirty = TRUE]
      called == it.onChange /\ newVal # oldVal
      doSave == mu.autosave /\ t - st.lastSave > SaveThrottleMs
  IN [st EXCEPT
        !.menus[m] = mu2,
        !.ev.adjusts = @ + 1,
        !.ev.onChange = IF called THEN Append(@, newVal) ELSE @,
        !.sdDoc = IF doSave THEN saveMenuSettings(mu2, @, sdOk) ELSE @,
        !.ev.saves = IF doSave /\ sdOk THEN @ + 1 ELSE @,
        !.lastSave = IF doSave THEN t ELSE @]

\* the value repeat timer without its waits: an adjust on every tick of a
\* hold
editStepEveryTick(st, m, d, t, sdOk) ==
  LET mu == st.menus[m] IN
  IF d = 0
    THEN [st EXCEPT !.menus[m].editActive = FALSE, !.menus[m].editDir = 0]
  ELSE [editAdjust(st, m, d, t, sdOk) EXCEPT
          !.menus[m].editActive = TRUE, !.menus[m].editDir = d,
          !.menus[m].editStart = IF ~mu.editActive \/ d # mu.editDir
                                   THEN t ELSE @,
          !.menus[m].editNext = t + firstDelay(mu)]

\* the value repeat timer of EditMenu::_editGamepad (419-440)
editStep(st, m, d, t, sdOk) ==
  LET mu == st.menus[m] IN
  IF d = 0
    THEN [st EXCEPT !.menus[m].editActive = FALSE, !.menus[m].editDir = 0]
  ELSE IF ~mu.editActive \/ d # mu.editDir
    THEN [editAdjust(st, m, d, t, sdOk) EXCEPT
            !.menus[m].editActive = TRUE, !.menus[m].editDir = d,
            !.menus[m].editStart = t,
            !.menus[m].editNext = t + firstDelay(mu)]
  ELSE IF t >= mu.editNext
    THEN [editAdjust(st, m, d, t, sdOk) EXCEPT
            !.menus[m].editNext = t + repeatDelay(mu, t - mu.editStart)]
  ELSE st

\* EditMenu::_editGamepad, the confirm edge (442-446)
editConfirm(st, m) ==
  IF confirmPressed(st.ctlS)
    THEN [st EXCEPT !.menus[m].editing = FALSE,
                    !.menus[m].dirty = TRUE,
                    !.ctlS = consumeConfirm(@),
                    !.ev.confirmSeen = TRUE]
    ELSE st

\* the back edge of EditMenu::_editGamepad handled as the browsing handler
\* handles it: it also pops the stack
editBackPops(st, m) ==
  IF backPressed(st.ctlS)
    THEN [st EXCEPT !.menus[m].editing = FALSE,
                    !.menus[m].dirty = TRUE,
                    !.menuStack = stackPop(@),
                    !.ctlS = consumeBack(@),
                    !.ev.backSeen = TRUE]
    ELSE st

\* EditMenu::_editGamepad, the back edge (447-451)
editBack(st, m) ==
  IF backPressed(st.ctlS)
    THEN [st EXCEPT !.menus[m].editing = FALSE,
                    !.menus[m].dirty = TRUE,
                    !.ctlS = consumeBack(@),
                    !.ev.backSeen = TRUE]
    ELSE st

\* EditMenu::_editGamepad: the value timer, then the confirm edge, then the
\* back edge
editGamepad(st, m, t, sdOk) ==
  IF t < st.inputLockUntil THEN st
  ELSE
    LET d == IF st.ctlS.left THEN -1 ELSE IF st.ctlS.right THEN 1 ELSE 0
    IN CHOOSE r \in
         {editBack(s2, m) :
            s2 \in {editConfirm(s1, m) :
              s1 \in {[editStep(st, m, d, t, sdOk) EXCEPT !.ev.editRan = TRUE]}}} :
         TRUE

\* MenuBase::_handleGamepad, the navigation timer (269-288)
navApply(st, m, t) ==
  LET c == st.ctlS
      d == dirFromOrientation(st.menus[m].orientation,
                              c.left, c.right, c.up, c.down)
  IN CHOOSE r \in
       {[st EXCEPT !.menus[m] = nv.mu, !.ev.navRan = TRUE,
                   !.ev.d = d, !.ev.branch = nv.branch] :
          nv \in {navStep(st.menus[m], d, t)}} : TRUE

\* MenuBase::_handleGamepad, the confirm edge (290)
navConfirm(st, m) ==
  IF confirmPressed(st.ctlS)
    THEN [st EXCEPT !.menus[m].activatedIndex = st.menus[m].sel,
                    !.ev.confirmSeen = TRUE]
    ELSE st

\* MenuBase::_handleGamepad, the back edge (291-295)
navBack(st, m, t) ==
  IF backPressed(st.ctlS)
    THEN [st EXCEPT
            !.menuStack = IF Len(@) > 1 THEN stackPop(@) ELSE @,
            !.menus = IF Len(st.menuStack) > 1
                        THEN forceRedraw(@, popResult(st.menuStack))
                        ELSE @,
            !.ev.popped = Len(st.menuStack) > 1,
            !.ctlS = consumeBack(@),
            !.inputLockUntil = t + BackLockMs,
            !.ev.backSeen = TRUE]
    ELSE st

\* MenuBase::_handleGamepad without the test of the input lock
handleGamepadNoLock(st, m, t) ==
  CHOOSE r \in
    {navBack(s2, m, t) :
       s2 \in {navConfirm(s1, m) : s1 \in {navApply(st, m, t)}}} : TRUE

\* MenuBase::_handleGamepad
handleGamepad(st, m, t) ==
  IF t < st.inputLockUntil THEN st
  ELSE CHOOSE r \in
         {navBack(s2, m, t) :
            s2 \in {navConfirm(s1, m) : s1 \in {navApply(st, m, t)}}} : TRUE

\* MenuBase::_handleMechanical, the confirm edge (324)
mechConfirm(st, m) ==
  IF confirmPressed(st.ctlS)
    THEN [st EXCEPT !.menus[m].activatedIndex = st.menus[m].sel,
                    !.ctlS = consumeConfirm(@),
                    !.ev.confirmSeen = TRUE]
    ELSE st

\* MenuBase::_handleMechanical: the timer and the back edge are those of
\* _handleGamepad
handleMechanical(st, m, t) ==
  IF t < st.inputLockUntil THEN st
  ELSE CHOOSE r \in
         {navBack(s2, m, t) :
            s2 \in {mechConfirm(s1, m) : s1 \in {navApply(st, m, t)}}} : TRUE

\* EditMenu::_editMechanical, the confirm edge (478)
mechEditConfirm(st, m) ==
  IF confirmPressed(st.ctlS)
    THEN [st EXCEPT !.menus[m].editing = FALSE,
                    !.ctlS = consumeConfirm(@),
                    !.ev.confirmSeen = TRUE]
    ELSE st

\* EditMenu::_editMechanical, the back edge (479)
mechEditBack(st, m) ==
  IF backPressed(st.ctlS)
    THEN [st EXCEPT !.menus[m].editing = FALSE,
                    !.ctlS = consumeBack(@),
                    !.ev.backSeen = TRUE]
    ELSE st

\* EditMenu::_editMechanical: the value timer of _editGamepad, then the
\* confirm edge, then the back edge
editMechanical(st, m, t, sdOk) ==
  IF t < st.inputLockUntil THEN st
  ELSE
    LET d == IF st.ctlS.left THEN -1 ELSE IF st.ctlS.right THEN 1 ELSE 0
    IN CHOOSE r \in
         {mechEditBack(s2, m) :
            s2 \in {mechEditConfirm(s1, m) :
              s1 \in {[editStep(st, m, d, t, sdOk) EXCEPT !.ev.editRan = TRUE]}}} :
         TRUE

\* MenuBase::_handleTouch (334-340)
handleTouch(st, m, t, p) ==
  IF t < st.inputLockUntil THEN st
  ELSE IF p.touched /\ p.tap
    THEN [st EXCEPT !.menus[m].activatedIndex = st.menus[m].sel,
                    !.ev.navRan = TRUE, !.ev.confirmSeen = TRUE]
    ELSE [st EXCEPT !.ev.navRan = TRUE]

\* EditMenu::_editTouch (482-488)
editTouch(st, m, t, p) ==
  IF t < st.inputLockUntil THEN st
  ELSE IF p.touched /\ p.tap
    THEN [st EXCEPT !.menus[m].editing = FALSE,
                    !.ev.editRan = TRUE, !.ev.confirmSeen = TRUE]
    ELSE [st EXCEPT !.ev.editRan = TRUE]

\* _handleInput / _handleInputEdit with the input lock tested before
\* controls.update: the mapper records no level during the lock
handleInputLockFirst(st, m, t, p, sdOk) ==
  LET mode == st.menus[m].mode
  IN IF t < st.inputLockUntil THEN st
     ELSE CHOOSE r \in
       {IF mode = "TOUCH"
          THEN (IF st.menus[m].editing THEN editTouch(s1, m, t, p)
                ELSE handleTouch(s1, m, t, p))
        ELSE IF mode = "MECH"
          THEN (IF st.menus[m].editing THEN editMechanical(s1, m, t, sdOk)
                ELSE handleMechanical(s1, m, t))
        ELSE IF st.menus[m].editing THEN editGamepad(s1, m, t, sdOk)
        ELSE handleGamepad(s1, m, t) :
          s1 \in {[st EXCEPT !.ctlS = c, !.ev.edgeC = confirmPressed(c),
                             !.ev.edgeB = backPressed(c)] :
                    c \in {controlsUpdate(st.ctlS, mode, p)}}} : TRUE

\* MenuBase::_handleInput / EditMenu::_handleInputEdit: controls.update,
\* then the handler of the menu's input mode
handleInput(st, m, t, p, sdOk) ==
  LET mode == st.menus[m].mode
  IN CHOOSE r \in
       {IF mode = "TOUCH"
          THEN (IF st.menus[m].editing THEN editTouch(s1, m, t, p)
                ELSE handleTouch(s1, m, t, p))
        ELSE IF mode = "MECH"
          THEN (IF st.menus[m].editing THEN editMechanical(s1, m, t, sdOk)
                ELSE handleMechanical(s1, m, t))
        ELSE IF st.menus[m].editing THEN editGamepad(s1, m, t, sdOk)
        ELSE handleGamepad(s1, m, t) :
          s1 \in {[st EXCEPT !.ctlS = c, !.ev.edgeC = confirmPressed(c),
                             !.ev.edgeB = backPressed(c)] :
                    c \in {controlsUpdate(st.ctlS, mode, p)}}} : TRUE

\* EditMenu::update, the blink of the edited value (622-638); wasEditing is
\* _editing at entry
blink(st, m, t, wasEditing) ==
  LET newState == ((t \div BlinkMs) % 2) = 1
  IN IF wasEditing
       THEN (IF newState # st.blinkState
               THEN [st EXCEPT !.blinkState = newState, !.menus[m].dirty = TRUE]
               ELSE st)
       ELSE (IF st.blinkState
               THEN [st EXCEPT !.blinkState = FALSE, !.menus[m].dirty = TRUE]
               ELSE st)

\* EditMenu::update drawing on every call, dirty or not
drawAlways(st, m) ==
  [st EXCEPT !.menus[m].dirty = FALSE, !.ev.draws = @ + 1]

\* EditMenu::update, if (_dirty) draw() (640)
drawIfDirty(st, m) ==
  IF st.menus[m].dirty
    THEN [st EXCEPT !.menus[m].dirty = FALSE, !.ev.draws = @ + 1]
    ELSE st

\* the activation of EditMenu::update with the edit kind tested before the
\* submenu link
activateEditFirst(st, m, t) ==
  LET ai == st.menus[m].activatedIndex
      it == IF ai >= MAX_OPT THEN st.stray ELSE ItemAt(st.menus[m], ai)
  IN IF ai < 0 THEN st
     ELSE IF it.edit # "NONE"
       THEN [st EXCEPT !.menus[m].editing = TRUE]
     ELSE IF it.submenu # NullMenu
       THEN [st EXCEPT !.menuStack = stackPush(@, it.submenu),
                       !.menus = forceRedraw(@, it.submenu),
                       !.inputLockUntil = t + PushLockMs,
                       !.ev.pushed = TRUE]
     ELSE [st EXCEPT !.ret = ai]

\* EditMenu::update, the activation (642-654)
activate(st, m, t) ==
  LET ai == st.menus[m].activatedIndex
      it == IF ai >= MAX_OPT THEN st.stray ELSE ItemAt(st.menus[m], ai)
  IN IF ai < 0 THEN st
     ELSE IF it.submenu # NullMenu
       THEN [st EXCEPT !.menuStack = stackPush(@, it.submenu),
                       !.menus = forceRedraw(@, it.submenu),
                       !.inputLockUntil = t + PushLockMs,
                       !.ev.pushed = TRUE]
     ELSE IF it.edit # "NONE"
       THEN [st EXCEPT !.menus[m].editing = TRUE]
     ELSE [st EXCEPT !.ret = ai]

\* EditMenu::update of menu m
update(st, m, t, p, sdOk) ==
  CHOOSE r \in
    {activate(a2, m, t) :
       a2 \in {drawIfDirty(a1, m) :
         a1 \in {blink(h, m, t, st.menus[m].editing) :
           h \in {handleInput(a0, m, t, p, sdOk) :
             a0 \in {[st EXCEPT !.menus[m].activatedIndex = -1,
                                !.ev = Ev0, !.ret = -1]}}}}} : TRUE

-----------------------------------------------------------------------------
(* The sketch: three menus built by setup(), driven by loop()              *)

\* MenuBase::linkSubmenu on the item just added
Linked(it, sub) == [it EXCEPT !.submenu = sub]
WithCallback(it) == [it EXCEPT !.onChange = TRUE]

\* the menus after the builders of setup(): a carousel root with two
\* submenu links, a settings list with editable items and autosave, and a
\* menu of labels
BuiltMenus ==
  LET root == WithItem(WithItem(WithItem(NewMenu("HORIZONTAL"),
                makeLabel), Linked(makeLabel, 2)), Linked(makeLabel, 3))
      settings == WithItem(WithItem(WithItem(NewMenu("VERTICAL"),
                    WithCallback(makeRange(5, 0, 10, 5))),
                    WithCallback(makeArray(2, 0))),
                    Linked(makeRange(1, 0, 2, 1), 3))
      power == WithItem(WithItem(NewMenu("HORIZONTAL"), makeLabel), makeLabel)
  IN [m \in MenuIds |->
        IF m = 1 THEN root
        ELSE IF m = 2 THEN [settings EXCEPT !.autosave = TRUE]
        ELSE power]

\* what the controller can show at one poll
PadWith(dp, a, b) ==
  [PadNeutral EXCEPT !.connected = TRUE, !.dpad = dp, !.a = a, !.b = b]

\* the polls followed: one direction, one button, a direction with a
\* button, both buttons
PadInputs ==
  {PadWith(dp, FALSE, FALSE) : dp \in {{}, {"left"}, {"right"}, {"up"}, {"down"}}}
  \cup {PadWith(dp, TRUE, FALSE) : dp \in {{}, {"right"}, {"down"}}}
  \cup {PadWith(dp, FALSE, TRUE) : dp \in {{}, {"right"}, {"down"}}}
  \cup {PadWith({}, TRUE, TRUE)}

\* the direction a poll shows to a menu of the given orientation
physDir(p, orient) ==
  LET c == readGamepad(ControlState0, p)
  IN dirFromOrientation(orient, c.left, c.right, c.up, c.down)

\* no document on the card
NoDoc == [exists |-> FALSE, bad |-> FALSE, kv |-> {}]

HoldIdle ==
  [on |-> FALSE, d |-> 0, t0 |-> 0, moves |-> 0, clean |-> FALSE,
   sel0 |-> 0, slowSeen |-> FALSE, fastSeen |-> FALSE, fastMoves |-> 0,
   switchedBack |-> FALSE]

Hist0 ==
  [api |-> 0, prevNow |-> 0, confRun |-> 0, backRun |-> 0,
   hold |-> [m \in MenuIds |-> HoldIdle], init |-> <<>>, saved |-> FALSE,
   wroteAt |-> -1, wroteBefore |-> -1, skipped |-> 0,
   heldSince |-> -1, pressedAt |-> -1, timeouts |-> 0, shortPolls |-> 0,
   holdSession |-> FALSE, holdTimedOut |-> FALSE,
   confLocked |-> FALSE, backLocked |-> FALSE]

Last0 ==
  [op |-> "none", menu |-> NullMenu, ret |-> -1, ev |-> Ev0, prevDir |-> 0,
   preStack |-> <<>>, arg |-> 0, pre |-> 0, preSel |-> 0, preLock |-> 0,
   preEditing |-> FALSE,
   preDirty |-> FALSE, preBlink |-> FALSE]

\* the machine state an update() call works on
St ==
  [menus |-> menus, menuStack |-> menuStack,
   inputLockUntil |-> inputLockUntil, ctlS |-> ctlS,
   blinkState |-> blinkState, lastSave |-> lastSave, sdDoc |-> sdDoc,
   ev |-> Ev0, ret |-> -1, stray |-> makeLabel]

\* the observed hold of menu x after an update() of menu m at time t
HoldAfter(x, m, t, pre, post, ev, h) ==
  IF x = m /\ ev.navRan
    THEN CASE ev.branch = "fresh" ->
                [on |-> TRUE, d |-> ev.d, t0 |-> t, moves |-> 1,
                 clean |-> TRUE, sel0 |-> pre.sel, slowSeen |-> FALSE,
                 fastSeen |-> FALSE, fastMoves |-> 0, switchedBack |-> FALSE]
           [] ev.branch = "repeat" ->
                LET delay == post.navNext - t IN
                [h EXCEPT !.moves = @ + 1,
                          !.slowSeen = @ \/ delay = REPEAT_HOLD_MS,
                          !.fastSeen = @ \/ delay = REPEAT_FAST_MS,
                          !.fastMoves = IF delay = REPEAT_FAST_MS
                                          THEN (IF @ < 2 THEN @ + 1 ELSE @)
                                          ELSE @,
                          !.switchedBack = @ \/ (h.fastSeen /\ delay # REPEAT_FAST_MS)]
           [] ev.branch = "wait" -> h
           [] OTHER -> HoldIdle
  ELSE IF h.on THEN [h EXCEPT !.clean = FALSE]
  ELSE h

\* the run of ticks a level has been asserted for: 0, 1 (first tick), 2 (later)
RunAfter(run, level) == IF ~level THEN 0 ELSE IF run = 0 THEN 1 ELSE 2

\* whether the run of ticks a level is asserted for began at an update()
\* made under the input lock
LockedAfter(was, run, locked, level) ==
  IF ~level THEN FALSE ELSE IF run = 0 THEN locked ELSE was

\* loop(): poll the controller, then update() the current menu; cards holds
\* the outcomes of opening the settings file on the card, strays what a read
\* of _items past the end of the array may yield
LoopStray(inputs, maxT, cards, strays) ==
  \E p \in inputs, stray \in strays :
    LET t == now + TickMs
        m == currentMenu(menuStack)
    IN /\ t <= maxT
       /\ now' = t
       /\ pad' = p
       /\ UNCHANGED <<rootMenu, gp>>
       /\ IF m = NullMenu
            THEN /\ UNCHANGED <<menus, menuStack, inputLockUntil, ctlS,
                                blinkState, lastSave, sdDoc>>
                 /\ last' = [Last0 EXCEPT !.op = "loop"]
                 /\ hist' = [hist EXCEPT !.prevNow = now]
            ELSE \E sdOk \in (IF menus[m].autosave /\ menus[m].editing
                                THEN cards ELSE {TRUE}) :
                 \E r \in {update([St EXCEPT !.stray = stray],
                                    m, t, p, sdOk)} :
                   /\ menus' = r.menus
                   /\ menuStack' = r.menuStack
                   /\ inputLockUntil' = r.inputLockUntil
                   /\ ctlS' = r.ctlS
                   /\ blinkState' = r.blinkState
                   /\ lastSave' = r.lastSave
                   /\ sdDoc' = r.sdDoc
                   /\ last' = [op |-> "update", menu |-> m, ret |-> r.ret,
                               ev |-> r.ev,
                               prevDir |-> physDir(pad, menus[m].orientation),
                               preStack |-> menuStack, arg |-> 0,
                               pre |-> getItemValue(menus[m], menus[m].sel),
                               preSel |-> menus[m].sel,
                               preLock |-> inputLockUntil,
                               preEditing |-> menus[m].editing,
                               preDirty |-> menus[m].dirty,
                               preBlink |-> blinkState]
                   /\ hist' = [hist EXCEPT
                        !.prevNow = now,
                        !.confRun = RunAfter(@, confirmLevel(menus[m].mode, p)),
                        !.backRun = RunAfter(@, backLevel(menus[m].mode, p)),
                        !.confLocked =
                          LockedAfter(@, hist.confRun, t < inputLockUntil,
                                      confirmLevel(menus[m].mode, p)),
                        !.backLocked =
                          LockedAfter(@, hist.backRun, t < inputLockUntil,
                                      backLevel(menus[m].mode, p)),
                        !.hold = [x \in MenuIds |->
                                    HoldAfter(x, m, t, menus[m], r.menus[m],
                                              r.ev, hist.hold[x])]]

\* loop() where no update() reads past _items
LoopWith(inputs, maxT, cards) == LoopStray(inputs, maxT, cards, {makeLabel})

\* loop() with a card that may fail or not at each save
LoopOver(inputs, maxT) == LoopWith(inputs, maxT, BOOLEAN)

Loop == LoopOver(PadInputs, MaxTime)

\* after setup(): the menus are built and setRootMenu(&rootMenu) was called
Init ==
  /\ now = 0
  /\ gp = Gp0
  /\ menus = BuiltMenus
  /\ rootMenu = 1
  /\ menuStack = <<1>>
  /\ inputLockUntil = 0
  /\ ctlS = ControlState0
  /\ pad = PadNeutral
  /\ blinkState = FALSE
  /\ lastSave = 0
  /\ sdDoc = NoDoc
  /\ last = Last0
  /\ hist = Hist0

Next == Loop

Spec == Init /\ [][Next]_vars

-----------------------------------------------------------------------------
(* Item values on their own: one menu holding one item, adjusted by        *)
(* EditMenu::_editAdjust, written by setItemValue and by loadMenuSettings  *)

MaxItemTime == 800   \* the item is followed while millis() <= MaxItemTime

\* (min, max, step) of the RANGE items drawn; the first is the sketch's
\* Brightness / Volume range
RangeShapes ==
  {<<0, 100, 5>>, <<0, 7, 5>>, <<-3, 4, 2>>, <<0, 6, -2>>, <<2, 2, 1>>,
   <<LONG_MAX - 7, LONG_MAX, 5>>, <<LONG_MIN, LONG_MIN + 7, 5>>}

\* the values a RANGE of shape sh is built with
BuiltValues(sh) ==
  {v \in {sh[1], sh[1] + 3, sh[2], 75} : sh[1] <= v /\ v <= sh[2]}

ItemShapes ==
  {makeRange(v, sh[1], sh[2], sh[3]) : sh \in RangeShapes, v \in 
     UNION {BuiltValues(x) : x \in RangeShapes}}
  \cup {makeArray(n, i) : n \in 1..MaxArrayCount, i \in 0..(MaxArrayCount - 1)}
  \cup {makeLabel}

\* the items a program can build with a valid value: a RANGE value within
\* [min,max], an ARRAY index below the count
ValidItem(it) ==
  /\ it.edit = "RANGE" => it.minV <= it.value /\ it.value <= it.maxV
  /\ it.edit = "ARRAY" => it.count >= 1 /\ it.index < it.count

\* the values setItemValue is called with / a persisted document holds
SetValues == {-1, 1, 500, LONG_MIN}

\* a file whose content deserializeJson rejects
BadDoc == [exists |-> TRUE, bad |-> TRUE, kv |-> {}]

\* the documents found on the card at start
Docs ==
  {NoDoc, BadDoc}
  \cup {[exists |-> TRUE, bad |-> FALSE, kv |-> kv] :
          kv \in {{}, {<<keyOf(1), jsonNumber(1)>>}}
                 \cup {{<<keyOf(0), jsonNumber(v)>>} : v \in SetValues}}

RECURSIVE loadItemsZeroAbsent(_, _, _)
\* the loop of loadMenuSettings without the containsKey test: an absent key
\* reads as 0
loadItemsZeroAbsent(mu, kv, i) ==
  IF i >= mu.count THEN mu
  ELSE LET hit == {e \in kv : e[1] = keyOf(i)}
       IN loadItemsZeroAbsent(
            setItemValue(mu, i, IF hit # {}
                                  THEN asLong((CHOOSE e \in hit : TRUE)[2])
                                  ELSE 0),
            kv, i + 1)

RECURSIVE loadItems(_, _, _)
\* the loop of loadMenuSettings (702-705) from index i on
loadItems(mu, kv, i) ==
  IF i >= mu.count THEN mu
  ELSE LET hit == {e \in kv : e[1] = keyOf(i)}
       IN loadItems(IF hit # {}
                      THEN setItemValue(mu, i, asLong((CHOOSE e \in hit : TRUE)[2]))
                      ELSE mu,
                    kv, i + 1)

\* loadMenuSettings: the menu after it and the result; opened says whether
\* SD.open succeeded
loadMenuSettings(mu, doc, opened) ==
  IF ~opened \/ ~doc.exists \/ doc.bad THEN [mu |-> mu, ok |-> FALSE]
  ELSE [mu |-> loadItems(mu, doc.kv, 0), ok |-> TRUE]

InitItemWith(items, docs) ==
  /\ now = 0
  /\ gp = Gp0
  /\ \E it \in {x \in items : ValidItem(x)}, cb \in BOOLEAN, as \in BOOLEAN :
       /\ menus = [m \in MenuIds |->
                     IF m = 1
                       THEN [WithItem(NewMenu("VERTICAL"),
                                      [it EXCEPT !.onChange = cb])
                               EXCEPT !.autosave = as, !.editing = TRUE]
                       ELSE NewMenu("VERTICAL")]
       /\ hist = [Hist0 EXCEPT !.init = <<it>>]
  /\ rootMenu = 1
  /\ menuStack = <<1>>
  /\ inputLockUntil = 0
  /\ ctlS = ControlState0
  /\ pad = PadNeutral
  /\ blinkState = FALSE
  /\ lastSave = 0
  /\ sdDoc \in docs
  /\ last = Last0

InitAdjust == InitItemWith(ItemShapes, {NoDoc})

\* the items written from outside the edit mode: the sketch's Brightness
\* range, a range whose span is no multiple of its step, an array, a label
WrittenItems ==
  {makeRange(75, 0, 100, 5), makeRange(0, 0, 7, 5),
   makeArray(MaxArrayCount, 0), makeLabel}

InitItem == InitItemWith(WrittenItems, Docs)

\* EditMenu::_editAdjust(dir) on the item being edited
AdjustItem ==
  \E dir \in {-1, 1}, sdOk \in BOOLEAN :
    \E r \in {editAdjust(St, 1, dir, now, sdOk)} :
      /\ menus' = r.menus
      /\ lastSave' = r.lastSave
      /\ sdDoc' = r.sdDoc
      /\ last' = [Last0 EXCEPT !.op = "adjust", !.menu = 1, !.arg = dir,
                               !.pre = getItemValue(menus[1], 0), !.ev = r.ev,
                               !.preDirty = menus[1].dirty]
      /\ UNCHANGED <<gp, now, menuStack, rootMenu, inputLockUntil, ctlS, pad,
                     blinkState, hist>>

\* time passes between two calls
ItemTime ==
  /\ now + 4 * TickMs <= MaxItemTime
  /\ now' = now + 4 * TickMs
  /\ last' = [Last0 EXCEPT !.op = "time"]
  /\ UNCHANGED <<gp, menus, menuStack, rootMenu, inputLockUntil, ctlS, pad,
                 blinkState, lastSave, sdDoc, hist>>

\* MenuBase::setItemValue(idx, v), idx also past the item count
SetItemValueCall ==
  \E idx \in {0, 1}, v \in SetValues :
    /\ menus' = [menus EXCEPT ![1] = setItemValue(@, idx, v)]
    /\ last' = [Last0 EXCEPT !.op = "setItemValue", !.menu = 1, !.arg = v,
                             !.pre = getItemValue(menus[1], 0)]
    /\ UNCHANGED <<gp, now, menuStack, rootMenu, inputLockUntil, ctlS, pad,
                   blinkState, lastSave, sdDoc, hist>>

\* loadMenuSettings(menu, path)
LoadCall ==
  \E opened \in BOOLEAN :
    \E r \in {loadMenuSettings(menus[1], sdDoc, opened)} :
      /\ menus' = [menus EXCEPT ![1] = r.mu]
      /\ last' = [Last0 EXCEPT !.op = "loadMenuSettings", !.menu = 1,
                               !.ret = IF r.ok THEN 1 ELSE 0,
                               !.pre = getItemValue(menus[1], 0)]
      /\ UNCHANGED <<gp, now, menuStack, rootMenu, inputLockUntil, ctlS, pad,
                     blinkState, lastSave, sdDoc, hist>>

NextAdjust == AdjustItem \/ ItemTime

SpecAdjust == InitAdjust /\ [][NextAdjust]_vars

NextItem == AdjustItem \/ ItemTime \/ SetItemValueCall \/ LoadCall

SpecItem == InitItem /\ [][NextItem]_vars

\* the item of the one-item menu, and the item it was built as
TheItem == menus[1].items[1]
BuiltItem == hist.init[1]

\* C1: a RANGE item whose value starts within [min,max] still has its value
\* within [min,max] after any sequence of edit adjusts.
C1_RangeStaysWithinBounds ==
  TheItem.edit = "RANGE" =>
    TheItem.minV <= TheItem.value /\ TheItem.value <= TheItem.maxV

\* the sketch's range 0..100 step 5 built at 75 has reached 0, and one more
\* decrement has left it at 0
C1_Witness ==
  /\ BuiltItem = makeRange(75, 0, 100, 5)
  /\ last.op = "adjust" /\ last.arg = -1 /\ last.pre = 0
  /\ TheItem.value = 0

\* C2 (as claimed): after any sequence of edit adjusts the value of a RANGE
\* item with step > 0 differs from its initial value by a multiple of step.
C2_WholeStepsFromInitial ==
  (TheItem.edit = "RANGE" /\ TheItem.step > 0) =>
    (TheItem.value - BuiltItem.value) % TheItem.step = 0

\* C2 (amended): after any sequence of edit adjusts the value of a RANGE item
\* with step > 0 is a whole number of steps away from its initial value, from
\* min or from max.
C2_WholeStepsFromInitialOrBound ==
  (TheItem.edit = "RANGE" /\ TheItem.step > 0) =>
    \/ (TheItem.value - BuiltItem.value) % TheItem.step = 0
    \/ (TheItem.value - TheItem.minV) % TheItem.step = 0
    \/ (TheItem.maxV - TheItem.value) % TheItem.step = 0

\* an adjust has clamped the value at max, off the grid of the initial value
C2_Witness ==
  /\ TheItem.edit = "RANGE" /\ TheItem.step > 0
  /\ last.op = "adjust" /\ last.arg = 1
  /\ TheItem.value = TheItem.maxV /\ last.pre # TheItem.maxV
  /\ (TheItem.value - BuiltItem.value) % TheItem.step # 0

\* C3 (as claimed): in every reachable state a RANGE value lies within
\* [min,max] and an ARRAY index within [0,count-1], also after setItemValue
\* or loadMenuSettings supplied an arbitrary integer.
C3_ItemValueAlwaysValid ==
  /\ TheItem.edit = "RANGE" =>
       TheItem.minV <= TheItem.value /\ TheItem.value <= TheItem.maxV
  /\ (TheItem.edit = "ARRAY" /\ TheItem.count > 0) =>
       0 <= TheItem.index /\ TheItem.index <= TheItem.count - 1

\* C4: the index of an ARRAY item with count >= 1 stays within [0,count-1]
\* under edit adjusts and wraps: an increment at count-1 gives 0, a decrement
\* at 0 gives count-1.
C4_ArrayIndexWraps ==
  (TheItem.edit = "ARRAY" /\ TheItem.count >= 1) =>
    /\ 0 <= TheItem.index /\ TheItem.index <= TheItem.count - 1
    /\ (last.op = "adjust" /\ last.arg = 1 /\ last.pre = TheItem.count - 1)
         => TheItem.index = 0
    /\ (last.op = "adjust" /\ last.arg = -1 /\ last.pre = 0)
         => TheItem.index = TheItem.count - 1
    /\ (last.op = "adjust" /\ last.arg = 1 /\ last.pre < TheItem.count - 1)
         => TheItem.index = last.pre + 1
    /\ (last.op = "adjust" /\ last.arg = -1 /\ last.pre > 0)
         => TheItem.index = last.pre - 1

\* a decrement at index 0 of an array of several choices has wrapped
C4_Witness ==
  /\ TheItem.edit = "ARRAY" /\ TheItem.count = MaxArrayCount
  /\ last.op = "adjust" /\ last.arg = -1 /\ last.pre = 0
  /\ TheItem.index = TheItem.count - 1

\* C5: with update() called on every tick, confirmPressed() is true on the
\* first tick of a run of ticks with confirm asserted and on no later tick of
\* that run, the same for back / backPressed(); the handlers see the edge on
\* that first tick only, and once consumed it is not seen again in that tick.
C5_EdgeOnFirstTickOnly ==
  last.op = "update" =>
    /\ last.ev.edgeC <=> hist.confRun = 1
    /\ last.ev.edgeB <=> hist.backRun = 1
    /\ last.ev.confirmSeen => hist.confRun = 1
    /\ last.ev.backSeen => (hist.backRun = 1 /\ ~backPressed(ctlS))
    /\ (last.ev.editRan /\ last.ev.confirmSeen) => ~confirmPressed(ctlS)

\* confirm is in the second tick of its hold and gives no edge, while back is
\* in its first tick, gives its edge and was consumed by the handler
C5_Witness ==
  /\ last.op = "update"
  /\ hist.confRun = 2 /\ ~last.ev.edgeC
  /\ hist.backRun = 1 /\ last.ev.edgeB /\ last.ev.backSeen

\* C6: a direction held from a fresh press at t0, with the menu's navigation
\* handler run on every tick, has moved the selection once while less than
\* initialRepeatDelay has passed and exactly twice at the tick that reaches
\* t0 + initialRepeatDelay, the second move being made at that tick.
C6_TwoMovesWithinInitialDelay ==
  \A m \in MenuIds :
    LET h == hist.hold[m] IN
    (last.op = "update" /\ last.menu = m /\ h.on /\ h.clean) =>
      /\ now - h.t0 < REPEAT_INITIAL_MS => h.moves = 1
      /\ (hist.prevNow - h.t0 < REPEAT_INITIAL_MS
            /\ now - h.t0 >= REPEAT_INITIAL_MS)
           => (h.moves = 2 /\ last.ev.branch = "repeat")
      /\ (h.moves <= 2 /\ h.sel0 + 2 * h.d >= 0
            /\ h.sel0 + 2 * h.d <= menus[m].count - 1)
           => menus[m].sel = h.sel0 + h.d * h.moves

\* a hold has just reached t0 + initialRepeatDelay in a menu with room for two
\* moves: the selection is two entries from where the hold began
C6_Witness ==
  \E m \in MenuIds :
    LET h == hist.hold[m] IN
    /\ last.op = "update" /\ last.menu = m /\ h.on /\ h.clean
    /\ hist.prevNow - h.t0 < REPEAT_INITIAL_MS
    /\ now - h.t0 >= REPEAT_INITIAL_MS
    /\ h.moves = 2
    /\ menus[m].sel = h.sel0 + 2 * h.d

\* C8 (as claimed): when the navigation handler runs with a direction asserted
\* that was not asserted at the poll before (it was released, or had the
\* other sign), the press is taken as fresh: the selection moves at once and
\* the next repeat is due no sooner than initialRepeatDelay later, whatever
\* the menu was doing while the direction was released.
C8_NextPressIsFresh ==
  (last.op = "update" /\ last.ev.navRan /\ last.ev.d # 0
     /\ last.prevDir # last.ev.d) =>
    /\ last.ev.branch = "fresh"
    /\ menus[last.menu].navNext >= now + REPEAT_INITIAL_MS

-----------------------------------------------------------------------------
(* A long hold: the sketch followed for longer, with fewer inputs           *)

MaxHoldTime == 1300   \* the hold is followed while millis() <= MaxHoldTime

\* nothing, a direction, the other direction, the direction with back
HoldInputs ==
  {PadWith({}, FALSE, FALSE), PadWith({"right"}, FALSE, FALSE),
   PadWith({"left"}, FALSE, FALSE), PadWith({"right"}, FALSE, TRUE)}

LoopHold == LoopOver(HoldInputs, MaxHoldTime)

NextHold == LoopHold

SpecHold == Init /\ [][NextHold]_vars

\* C7: every repeat move of a hold schedules the next move holdRepeatDelay
\* later while the hold has lasted less than fastRepeatAfter and
\* fastRepeatDelay later once it has lasted fastRepeatAfter or more; a hold
\* that has used fastRepeatDelay never uses holdRepeatDelay again.
C7_RepeatRateByElapsed ==
  \A m \in MenuIds :
    LET h == hist.hold[m] IN
    /\ ~h.switchedBack
    /\ (last.op = "update" /\ last.menu = m /\ last.ev.branch = "repeat") =>
         /\ h.on
         /\ menus[m].navNext - now =
              IF now - h.t0 >= REPEAT_AFTER_MS THEN REPEAT_FAST_MS
              ELSE REPEAT_HOLD_MS

\* a hold that repeated at the slow rate, passed fastRepeatAfter, and has
\* just made its second move at the fast rate
C7_Witness ==
  \E m \in MenuIds :
    LET h == hist.hold[m] IN
    /\ last.op = "update" /\ last.menu = m /\ last.ev.branch = "repeat"
    /\ h.slowSeen /\ h.fastMoves >= 2
    /\ menus[m].navNext - now = REPEAT_FAST_MS

-----------------------------------------------------------------------------
(* The menu stack driven by its host: setRootMenu, pushMenu, popMenu and    *)
(* loop() in any order, from the state before setup()                       *)

MaxStackTime == 300   \* the loop is followed while millis() <= MaxStackTime

\* nothing, confirm, back, a direction
StackInputs ==
  {PadWith({}, FALSE, FALSE), PadWith({}, TRUE, FALSE),
   PadWith({}, FALSE, TRUE), PadWith({"right"}, FALSE, FALSE)}

\* the statics of MenuUI.cpp before setRootMenu was called
InitStack ==
  /\ now = 0
  /\ gp = Gp0
  /\ menus = BuiltMenus
  /\ rootMenu = NullMenu
  /\ menuStack = <<>>
  /\ inputLockUntil = 0
  /\ ctlS = ControlState0
  /\ pad = PadNeutral
  /\ blinkState = FALSE
  /\ lastSave = 0
  /\ sdDoc = NoDoc
  /\ last = Last0
  /\ hist = Hist0

\* setRootMenu(m), m also nullptr
SetRootMenu ==
  \E m \in MenuIds \cup {NullMenu} :
    /\ hist.api < MaxApiCalls
    /\ rootMenu' = m
    /\ menuStack' = stackSetRoot(menuStack, m)
    /\ last' = [Last0 EXCEPT !.op = "setRootMenu", !.arg = m,
                             !.preStack = menuStack]
    /\ hist' = [hist EXCEPT !.api = @ + 1]
    /\ UNCHANGED <<gp, now, menus, inputLockUntil, ctlS, pad, blinkState,
                   lastSave, sdDoc>>

\* pushMenu(m), m also nullptr
PushMenu ==
  \E m \in MenuIds \cup {NullMenu} :
    /\ hist.api < MaxApiCalls
    /\ menuStack' = stackPush(menuStack, m)
    /\ menus' = forceRedraw(menus, m)
    /\ last' = [Last0 EXCEPT !.op = "pushMenu", !.arg = m,
                             !.preStack = menuStack]
    /\ hist' = [hist EXCEPT !.api = @ + 1]
    /\ UNCHANGED <<gp, now, rootMenu, inputLockUntil, ctlS, pad, blinkState,
                   lastSave, sdDoc>>

\* popMenu()
PopMenu ==
  /\ hist.api < MaxApiCalls
  /\ menuStack' = stackPop(menuStack)
  /\ menus' = forceRedraw(menus, popResult(menuStack))
  /\ last' = [Last0 EXCEPT !.op = "popMenu", !.ret = popResult(menuStack),
                           !.preStack = menuStack]
  /\ hist' = [hist EXCEPT !.api = @ + 1]
  /\ UNCHANGED <<gp, now, rootMenu, inputLockUntil, ctlS, pad, blinkState,
                 lastSave, sdDoc>>

LoopStack == LoopOver(StackInputs, MaxStackTime)

NextStack == SetRootMenu \/ PushMenu \/ PopMenu \/ LoopStack

SpecStack == InitStack /\ [][NextStack]_vars

\* C9: popMenu() on a stack of at most one entry leaves the stack as it was
\* and returns nullptr; on a stack of two or more entries it removes the top
\* entry only and returns the new top, which is marked for redraw. The pop
\* made by a back edge in update() removes the top entry only.
C9_PopRemovesTopOnly ==
  /\ last.op = "popMenu" =>
       IF Len(last.preStack) <= 1
         THEN menuStack = last.preStack /\ last.ret = NullMenu
         ELSE /\ menuStack = SubSeq(last.preStack, 1, Len(last.preStack) - 1)
              /\ last.ret = menuStack[Len(menuStack)]
              /\ menus[last.ret].dirty
  /\ (last.op = "update" /\ last.ev.popped) =>
       menuStack = SubSeq(last.preStack, 1, Len(last.preStack) - 1)
  /\ (last.op = "update" /\ last.ev.backSeen /\ Len(last.preStack) = 1) =>
       menuStack = last.preStack

\* popMenu() has just removed the top of a stack of two or more entries
C9_Witness ==
  /\ last.op = "popMenu" /\ Len(last.preStack) >= 2
  /\ Len(menuStack) = Len(last.preStack) - 1
  /\ last.ret = menuStack[Len(menuStack)]

\* C10: right after setRootMenu(m) with m not nullptr the stack is <<m>>, and
\* from then on, through pushMenu, popMenu and update() calls, the stack is
\* not empty, its first entry is m and currentMenu() is its last entry.
C10_RootStaysAtBottom ==
  /\ (last.op = "setRootMenu" /\ last.arg # NullMenu) =>
       menuStack = <<last.arg>>
  /\ rootMenu # NullMenu =>
       /\ menuStack # <<>>
       /\ menuStack[1] = rootMenu
       /\ currentMenu(menuStack) = menuStack[Len(menuStack)]

\* a root was set over a stack that already held menus, a menu was pushed
\* over it, and a back edge in update() has popped back to the root
C10_Witness ==
  /\ rootMenu # NullMenu
  /\ last.op = "update" /\ last.ev.popped
  /\ menuStack = <<rootMenu>>
  /\ hist.api >= 3

-----------------------------------------------------------------------------
(* Persistence: menu 1 is edited and saved, menu 2 is a freshly built menu  *)
(* of the same shape that the document is loaded into                       *)

RECURSIVE MenuOf(_)
\* a menu built by addItem of every item of the sequence
MenuOf(items) ==
  IF items = <<>> THEN NewMenu("VERTICAL")
  ELSE WithItem(MenuOf(SubSeq(items, 1, Len(items) - 1)), items[Len(items)])

\* the shapes built: the kinds of the sketch's settings menu, a menu long
\* enough for two-digit keys, ranges at the ends of long, an empty menu
PersistShapes ==
  {<<makeRange(5, 0, 10, 5), makeArray(2, 0), makeLabel>>,
   <<makeRange(0, -1, 0, 1), makeArray(2, 0), makeLabel, makeLabel, makeLabel,
     makeLabel, makeLabel, makeLabel, makeLabel, makeLabel,
     makeRange(0, 0, 5, 5)>>,
   <<makeRange(LONG_MIN, LONG_MIN, LONG_MIN + 7, 5),
     makeRange(LONG_MAX, LONG_MAX - 7, LONG_MAX, 5)>>,
   <<>>}

\* the documents found on the card at start: none, a malformed one, and
\* documents holding some of the keys
PersistDocs ==
  {NoDoc, BadDoc,
   [exists |-> TRUE, bad |-> FALSE,
    kv |-> {<<keyOf(1), jsonNumber(2)>>, <<keyOf(10), jsonNumber(5)>>}],
   [exists |-> TRUE, bad |-> FALSE, kv |-> {<<keyOf(0), jsonNumber(-1)>>}]}

InitPersist ==
  /\ now = 0
  /\ gp = Gp0
  /\ \E sh \in PersistShapes :
       /\ menus = [m \in MenuIds |->
                     IF m \in {1, 2} THEN MenuOf(sh) ELSE NewMenu("VERTICAL")]
       /\ hist = [Hist0 EXCEPT !.init = sh]
  /\ rootMenu = 1
  /\ menuStack = <<1>>
  /\ inputLockUntil = 0
  /\ ctlS = ControlState0
  /\ pad = PadNeutral
  /\ blinkState = FALSE
  /\ lastSave = 0
  /\ sdDoc \in PersistDocs
  /\ last = Last0

\* the user selects an editable item of menu 1 and adjusts it once
PersistAdjust ==
  \E i \in 0..(menus[1].count - 1), dir \in {-1, 1} :
    /\ ItemAt(menus[1], i).edit # "NONE"
    /\ \E r \in {editAdjust([St EXCEPT !.menus[1].sel = i,
                                       !.menus[1].editing = TRUE],
                            1, dir, now, TRUE)} :
         /\ menus' = r.menus
         /\ last' = [Last0 EXCEPT !.op = "adjust", !.menu = 1]
         /\ hist' = [hist EXCEPT !.saved = FALSE]
         /\ UNCHANGED <<gp, now, menuStack, rootMenu, inputLockUntil, ctlS, pad,
                        blinkState, lastSave, sdDoc>>

\* saveMenuSettings(menu 1, path)
PersistSave ==
  \E sdOk \in BOOLEAN :
    /\ sdDoc' = saveMenuSettings(menus[1], sdDoc, sdOk)
    /\ last' = [Last0 EXCEPT !.op = "saveMenuSettings", !.menu = 1,
                             !.ret = IF sdOk THEN 1 ELSE 0]
    /\ hist' = [hist EXCEPT !.saved = IF sdOk THEN TRUE ELSE @]
    /\ UNCHANGED <<gp, now, menus, menuStack, rootMenu, inputLockUntil, ctlS, pad,
                   blinkState, lastSave>>

\* menu 2 is built afresh and loadMenuSettings(menu 2, path) is called
PersistLoad ==
  \E opened \in BOOLEAN :
    \E r \in {loadMenuSettings(MenuOf(hist.init), sdDoc, opened)} :
      /\ menus' = [menus EXCEPT ![2] = r.mu]
      /\ last' = [Last0 EXCEPT !.op = "loadMenuSettings", !.menu = 2,
                               !.ret = IF r.ok THEN 1 ELSE 0,
                               !.arg = IF opened THEN 1 ELSE 0]
      /\ UNCHANGED <<gp, now, menuStack, rootMenu, inputLockUntil, ctlS, pad,
                     blinkState, lastSave, sdDoc, hist>>

NextPersist == PersistAdjust \/ PersistSave \/ PersistLoad

SpecPersist == InitPersist /\ [][NextPersist]_vars

\* the menu as built, before any load
FreshMenu == MenuOf(hist.init)

\* the keys the document on the card holds
DocKeys == {e[1] : e \in sdDoc.kv}

\* C11: when the document on the card was written by saveMenuSettings from
\* menu 1 as it is now and loadMenuSettings into a freshly built menu of the
\* same shape succeeded, getItemValue(i) is the same in both menus for every
\* index i.
C11_SaveLoadRoundTrip ==
  (last.op = "loadMenuSettings" /\ last.ret = 1 /\ hist.saved) =>
    /\ menus[2].count = menus[1].count
    /\ \A i \in 0..(menus[1].count - 1) :
         getItemValue(menus[2], i) = getItemValue(menus[1], i)

\* a round trip of a menu with a two-digit key whose first and last items
\* had been adjusted away from the values they are built with
C11_Witness ==
  /\ last.op = "loadMenuSettings" /\ last.ret = 1 /\ hist.saved
  /\ menus[1].count >= 11
  /\ getItemValue(menus[1], 10) # getItemValue(FreshMenu, 10)
  /\ getItemValue(menus[1], 0) < 0
  /\ getItemValue(menus[2], 10) = getItemValue(menus[1], 10)

\* C12: loadMenuSettings leaves every item whose key is absent from the
\* document as it was; it fails exactly when the file cannot be opened or its
\* content is malformed, and then leaves the whole menu as it was; the item
\* count and the selection are never changed.
C12_LoadLeavesAbsentKeysAlone ==
  last.op = "loadMenuSettings" =>
    /\ \A i \in 0..(FreshMenu.count - 1) :
         (keyOf(i) \notin DocKeys \/ last.ret = 0) =>
           ItemAt(menus[2], i) = ItemAt(FreshMenu, i)
    /\ last.ret = 0 <=> (last.arg = 0 \/ ~sdDoc.exists \/ sdDoc.bad)
    /\ last.ret = 0 => menus[2] = FreshMenu
    /\ menus[2].count = FreshMenu.count
    /\ menus[2].sel = FreshMenu.sel

\* a load that succeeded on a document holding the key of one item and not
\* the key of another: the first item was written, the second is as built
C12_Witness ==
  /\ last.op = "loadMenuSettings" /\ last.ret = 1
  /\ \E i, j \in 0..(FreshMenu.count - 1) :
       /\ keyOf(i) \notin DocKeys /\ ItemAt(FreshMenu, i).edit # "NONE"
       /\ keyOf(j) \in DocKeys
       /\ ItemAt(menus[2], j) # ItemAt(FreshMenu, j)

-----------------------------------------------------------------------------
(* Filling a menu: addItem up to and past the capacity                      *)

\* the item handed to the n-th addItem call (n from 0): the three kinds in
\* turn, the editable ones telling their position by their value
FillItem(n) ==
  IF n % 3 = 0 THEN makeLabel
  ELSE IF n % 3 = 1 THEN makeRange(n, 0, MAX_OPT, 1)
  ELSE makeArray(n + 1, n)

\* one constructed menu, nothing added yet
InitFill ==
  /\ now = 0
  /\ gp = Gp0
  /\ menus = [m \in MenuIds |-> NewMenu("VERTICAL")]
  /\ rootMenu = NullMenu
  /\ menuStack = <<>>
  /\ inputLockUntil = 0
  /\ ctlS = ControlState0
  /\ pad = PadNeutral
  /\ blinkState = FALSE
  /\ lastSave = 0
  /\ sdDoc = NoDoc
  /\ last = Last0
  /\ hist = Hist0

\* menu.addItem(it) on menu 1, also when it is full
FillAdd ==
  \E it \in {FillItem(menus[1].count)} :
    /\ menus' = [menus EXCEPT ![1] = addItem(@, it)]
    /\ last' = [Last0 EXCEPT !.op = "addItem", !.menu = 1,
                             !.ret = IF addItemResult(menus[1]) THEN 1 ELSE 0]
    /\ hist' = [hist EXCEPT !.init = <<menus[1], it>>]
    /\ UNCHANGED <<gp, now, menuStack, rootMenu, inputLockUntil, ctlS, pad,
                   blinkState, lastSave, sdDoc>>

\* the selection of menu 1 is moved by one entry
FillMove ==
  \E delta \in {-1, 1} :
    /\ menus[1].count > 0
    /\ menus' = [menus EXCEPT ![1] = moveSel(@, delta)]
    /\ last' = [Last0 EXCEPT !.op = "moveSel", !.menu = 1, !.arg = delta]
    /\ UNCHANGED <<gp, now, menuStack, rootMenu, inputLockUntil, ctlS, pad,
                   blinkState, lastSave, sdDoc, hist>>

NextFill == FillAdd \/ FillMove

SpecFill == InitFill /\ [][NextFill]_vars

\* C13: addItem on a menu holding MAX_OPT items returns false and leaves the
\* count, the stored items and the selection as they were; below capacity it
\* returns true, stores the item at index count and raises the count by one,
\* leaving the items before it and the selection as they were.
C13_AddItemUpToCapacity ==
  /\ menus[1].count <= MAX_OPT
  /\ last.op = "addItem" =>
       LET before == hist.init[1]
           it == hist.init[2]
       IN IF before.count >= MAX_OPT
            THEN /\ last.ret = 0
                 /\ menus[1].count = before.count
                 /\ menus[1].items = before.items
                 /\ menus[1].sel = before.sel
            ELSE /\ last.ret = 1
                 /\ menus[1].count = before.count + 1
                 /\ ItemAt(menus[1], before.count) = it
                 /\ SubSeq(menus[1].items, 1, before.count) = before.items
                 /\ menus[1].sel = before.sel

\* addItem was refused on a full menu whose selection had been moved off the
\* first entry
C13_Witness ==
  /\ last.op = "addItem" /\ last.ret = 0
  /\ hist.init[1].count = MAX_OPT
  /\ menus[1].count = MAX_OPT
  /\ menus[1].sel > 0

-----------------------------------------------------------------------------
(* A menu that is current while its host still adds items to it             *)

MaxBuildTime == 600    \* the loop is followed while millis() <= MaxBuildTime
MaxBuildItems == 4     \* addItem calls followed

\* nothing, next, previous (the menu is a vertical list)
BuildInputs ==
  {PadWith({}, FALSE, FALSE), PadWith({"down"}, FALSE, FALSE),
   PadWith({"up"}, FALSE, FALSE)}

\* an empty vertical menu, made the root before any item was added
InitBuild ==
  /\ now = 0
  /\ gp = Gp0
  /\ menus = [m \in MenuIds |-> NewMenu("VERTICAL")]
  /\ rootMenu = 1
  /\ menuStack = <<1>>
  /\ inputLockUntil = 0
  /\ ctlS = ControlState0
  /\ pad = PadNeutral
  /\ blinkState = FALSE
  /\ lastSave = 0
  /\ sdDoc = NoDoc
  /\ last = Last0
  /\ hist = Hist0

\* menu.addItem(makeLabel(...)) on the root
BuildAdd ==
  /\ menus[1].count < MaxBuildItems
  /\ menus' = [menus EXCEPT ![1] = addItem(@, makeLabel)]
  /\ last' = [Last0 EXCEPT !.op = "addItem", !.menu = 1,
                           !.ret = IF addItemResult(menus[1]) THEN 1 ELSE 0]
  /\ UNCHANGED <<gp, now, menuStack, rootMenu, inputLockUntil, ctlS, pad,
                 blinkState, lastSave, sdDoc, hist>>

LoopBuild == LoopOver(BuildInputs, MaxBuildTime)

NextBuild == BuildAdd \/ LoopBuild

SpecBuild == InitBuild /\ [][NextBuild]_vars

\* C14 (as claimed): whenever a menu holds items its selection is within
\* [0,count-1], after any sequence of addItem and update() calls, also when a
\* direction was received while the menu was empty.
C14_SelectionWithinCount ==
  \A m \in MenuIds :
    menus[m].count > 0 => (0 <= menus[m].sel /\ menus[m].sel <= menus[m].count - 1)

\* C15 (as claimed): in a vertical menu, after every move of the selection
\* the scroll window holds the selection: firstVisible <= sel and
\* sel < firstVisible + 6.
C15_SelectionInsideWindow ==
  \A m \in MenuIds :
    (menus[m].orientation = "VERTICAL" /\ menus[m].sel < menus[m].count
       /\ last.menu = m
       /\ \/ last.op = "moveSel"
          \/ last.op = "update" /\ last.ev.branch \in {"fresh", "repeat"}) =>
      /\ menus[m].firstVisible <= menus[m].sel
      /\ menus[m].sel < menus[m].firstVisible + 6

-----------------------------------------------------------------------------
(* Activation, back and edit mode in the sketch's menus (specification Spec) *)

\* the item under the selection of the menu the last update() ran on
SelItem == ItemAt(menus[last.menu], menus[last.menu].sel)

\* the stack the browsing handler left before the activation was looked at
StackAfterBack ==
  IF last.ev.backSeen /\ last.ev.navRan /\ Len(last.preStack) > 1
    THEN SubSeq(last.preStack, 1, Len(last.preStack) - 1)
    ELSE last.preStack

C17_BackLocksOnlyAboveRoot ==
  (last.op = "update" /\ last.ev.navRan /\ last.ev.backSeen
     /\ ~last.ev.pushed) =>
    IF Len(last.preStack) > 1
      THEN /\ menuStack = SubSeq(last.preStack, 1, Len(last.preStack) - 1)
           /\ inputLockUntil = now + BackLockMs
      ELSE /\ menuStack = last.preStack
           /\ inputLockUntil = last.preLock

\* C18: an activation that lands on an item with a linked submenu pushes
\* that submenu, which becomes current and is marked for redraw, and sets the
\* input lock; the menu does not enter edit mode and update() returns -1,
\* whatever the edit kind of the item.
C18_SubmenuLinkComesFirst ==
  (last.op = "update" /\ last.ev.navRan /\ last.ev.confirmSeen
     /\ SelItem.submenu # NullMenu) =>
    /\ last.ev.pushed
    /\ menuStack = Append(StackAfterBack, SelItem.submenu)
    /\ currentMenu(menuStack) = SelItem.submenu
    /\ menus[SelItem.submenu].dirty
    /\ inputLockUntil = now + PushLockMs
    /\ ~menus[last.menu].editing
    /\ last.ret = -1

\* the activated item is a RANGE item with a submenu link: the submenu was
\* pushed
C18_Witness ==
  /\ last.op = "update" /\ last.ev.navRan /\ last.ev.confirmSeen
  /\ SelItem.submenu # NullMenu /\ SelItem.edit = "RANGE"
  /\ last.ev.pushed
  /\ currentMenu(menuStack) = SelItem.submenu

\* C19: a browsing menu enters edit mode exactly when an activation lands on
\* an item without submenu whose edit kind is not NONE; an editing menu
\* whose handler runs leaves edit mode exactly on a confirm or back edge, and
\* stays in edit mode while its handler is held off by the input lock. An
\* update() of an editing menu changes neither the selection nor the stack
\* nor the input lock and returns -1, and changes the value only by the
\* adjusts of that tick.
C19_EditModeEntryAndExit ==
  last.op = "update" =>
    LET mu == menus[last.menu]
        landed == /\ last.ev.navRan /\ last.ev.confirmSeen
                  /\ SelItem.submenu = NullMenu /\ SelItem.edit # "NONE"
    IN /\ ~last.preEditing => (mu.editing <=> landed)
       /\ (last.preEditing /\ last.ev.editRan) =>
            (mu.editing <=> ~(last.ev.edgeC \/ last.ev.edgeB))
       /\ (last.preEditing /\ ~last.ev.editRan) => mu.editing
       /\ last.preEditing =>
            /\ mu.sel = last.preSel
            /\ menuStack = last.preStack
            /\ inputLockUntil = last.preLock
            /\ last.ret = -1
            /\ last.ev.adjusts = 0 => getItemValue(mu, mu.sel) = last.pre

\* edit mode was left by a back edge in a submenu, after the value had been
\* adjusted: the value is kept and the submenu is still current
C19_Witness ==
  /\ last.op = "update" /\ last.preEditing /\ last.ev.editRan
  /\ last.ev.edgeB /\ ~last.ev.edgeC
  /\ ~menus[last.menu].editing
  /\ Len(menuStack) >= 2
  /\ getItemValue(menus[last.menu], menus[last.menu].sel)
       # getItemValue(BuiltMenus[last.menu], menus[last.menu].sel)

-----------------------------------------------------------------------------
(* The change callback and the dirty flag of an edit adjust                *)
(* (specification SpecCallback: one item in edit mode, adjusted and drawn) *)

\* EditMenu::update, if (_dirty) draw(), on the one-item menu
DrawItem ==
  /\ menus[1].dirty
  /\ \E r \in {drawIfDirty(St, 1)} :
       /\ menus' = r.menus
       /\ last' = [Last0 EXCEPT !.op = "draw", !.menu = 1, !.ev = r.ev]
  /\ UNCHANGED <<gp, now, menuStack, rootMenu, inputLockUntil, ctlS, pad,
                 blinkState, lastSave, sdDoc, hist>>

NextCallback == AdjustItem \/ ItemTime \/ DrawItem

SpecCallback == InitAdjust /\ [][NextCallback]_vars

\* C20: an edit adjust invokes the item's change callback exactly once, with
\* the new value, when the item has a callback and the new value differs from
\* the old one, and does not invoke it otherwise; the dirty flag is set after
\* every adjust.
C20_CallbackOnlyOnChange ==
  last.op = "adjust" =>
    /\ last.ev.onChange =
         IF TheItem.onChange /\ ItemValue(TheItem) # last.pre
           THEN <<ItemValue(TheItem)>>
           ELSE <<>>
    /\ menus[1].dirty

\* an item with a callback was adjusted after a draw and kept its value (a
\* RANGE at a bound, an ARRAY of one choice): no call, and the menu is dirty
\* again
C20_Witness ==
  /\ last.op = "adjust"
  /\ TheItem.onChange /\ TheItem.edit # "NONE"
  /\ ItemValue(TheItem) = last.pre
  /\ last.ev.onChange = <<>>
  /\ ~last.preDirty /\ menus[1].dirty

-----------------------------------------------------------------------------
(* The autosave throttle of EditMenu::_editAdjust (specification           *)
(* SpecThrottle: one item in edit mode, adjusted at any pace)              *)

MaxThrottleTime == 1000  \* the item is followed while millis() <= MaxThrottleTime

\* the items adjusted under the throttle
ThrottleItems == {makeRange(1, 0, 2, 1), makeArray(2, 0)}

InitThrottle == InitItemWith(ThrottleItems, {NoDoc})

\* EditMenu::_editAdjust(dir); the times of the last two writes and the
\* adjusts since the last write that wrote nothing are kept in hist
ThrottleAdjust ==
  \E dir \in {-1, 1}, sdOk \in BOOLEAN :
    \E r \in {editAdjust(St, 1, dir, now, sdOk)} :
      /\ menus' = r.menus
      /\ lastSave' = r.lastSave
      /\ sdDoc' = r.sdDoc
      /\ last' = [Last0 EXCEPT !.op = "adjust", !.menu = 1, !.ev = r.ev]
      /\ hist' = IF r.ev.saves > 0
                   THEN [hist EXCEPT !.wroteAt = now,
                                     !.wroteBefore = hist.wroteAt,
                                     !.skipped = 0]
                   ELSE [hist EXCEPT !.skipped = IF @ < 2 THEN @ + 1 ELSE @]
      /\ UNCHANGED <<gp, now, menuStack, rootMenu, inputLockUntil, ctlS, pad,
                     blinkState>>

\* millis() advances between two adjusts
ThrottleTime ==
  /\ now + TickMs <= MaxThrottleTime
  /\ now' = now + TickMs
  /\ last' = [Last0 EXCEPT !.op = "time"]
  /\ UNCHANGED <<gp, menus, menuStack, rootMenu, inputLockUntil, ctlS, pad,
                 blinkState, lastSave, sdDoc, hist>>

NextThrottle == ThrottleAdjust \/ ThrottleTime

SpecThrottle == InitThrottle /\ [][NextThrottle]_vars

\* C21: an adjust writes the settings at most once and only on a menu with
\* autosave; a write comes more than the throttle interval (300 ms) after the
\* write before it, and after millis() has passed the interval, however many
\* adjusts were made in between.
C21_WritesMoreThanIntervalApart ==
  /\ last.op = "adjust" =>
       /\ last.ev.saves <= 1
       /\ last.ev.saves = 1 => menus[1].autosave /\ hist.wroteAt = now
  /\ hist.wroteAt >= 0 => hist.wroteAt > SaveThrottleMs
  /\ hist.wroteBefore >= 0 =>
       hist.wroteAt - hist.wroteBefore > SaveThrottleMs

\* a second write has been made, and two more adjusts after it wrote nothing
C21_Witness ==
  /\ last.op = "adjust" /\ last.ev.saves = 0
  /\ menus[1].autosave
  /\ hist.wroteBefore >= 0
  /\ hist.skipped = 2
  /\ now - hist.wroteAt <= SaveThrottleMs

-----------------------------------------------------------------------------
(* Autosave in the sketch with a card that never fails (specification      *)
(* SpecAutosave: the sketch's menus, the settings menu reached and edited)  *)

MaxAutosaveTime == 900  \* the loop is followed while millis() <= MaxAutosaveTime

\* the polls followed: nothing, right, left, confirm
AutosaveInputs ==
  {PadWith(dp, FALSE, FALSE) : dp \in {{}, {"left"}, {"right"}}}
  \cup {PadWith({}, TRUE, FALSE)}

LoopAutosave == LoopWith(AutosaveInputs, MaxAutosaveTime, {TRUE})

NextAutosave == LoopAutosave

SpecAutosave == Init /\ [][NextAutosave]_vars

\* C22 (as claimed): when an autosaving menu leaves edit mode with a value
\* changed and the card has never failed, the persisted document holds the
\* current value of every item of the menu.
C22_LeavingEditModeLeavesValuesSaved ==
  (/\ last.op = "update" /\ last.preEditing
   /\ ~menus[last.menu].editing
   /\ menus[last.menu].autosave
   /\ \E i \in 0..(menus[last.menu].count - 1) :
        getItemValue(menus[last.menu], i)
          # getItemValue(BuiltMenus[last.menu], i)) =>
    sdDoc = saveMenuSettings(menus[last.menu], NoDoc, TRUE)

-----------------------------------------------------------------------------
(* Redraw dispatch in the sketch's menus (specification Spec)              *)

\* C23: update() draws at most once, and draws exactly when the dirty flag
\* is set where it is tested: it was set before the call, or the call moved
\* the selection, adjusted a value, left edit mode or changed the blink
\* phase. The flag of the updated menu is clear after every update(), so an
\* update() that follows with no input and no blink change draws nothing.
C23_DrawsOnceWhenDirty ==
  last.op = "update" =>
    LET mu == menus[last.menu] IN
    /\ last.ev.draws <= 1
    /\ ~mu.dirty
    /\ last.ev.draws = 1 <=>
         \/ last.preDirty
         \/ mu.sel # last.preSel
         \/ last.ev.adjusts > 0
         \/ last.preEditing /\ ~mu.editing
         \/ blinkState # last.preBlink

\* an update() of a menu in edit mode, clean since its last draw, with
\* nothing pressed and the blink phase unchanged: nothing was drawn
C23_Witness ==
  /\ last.op = "update" /\ last.ev.draws = 0
  /\ ~last.preDirty /\ last.preEditing /\ last.ev.editRan
  /\ last.ev.d = 0 /\ ~last.ev.edgeC /\ ~last.ev.edgeB
  /\ blinkState = last.preBlink

-----------------------------------------------------------------------------
(* The dirty flag under the calls that change a menu (specification        *)
(* SpecRedraw: one menu, drawn and changed through its interface)          *)

MaxRedrawItems == 3  \* items added to the menu at most

\* what a draw of the menu depends on
Shown(mu) ==
  [items |-> mu.items, count |-> mu.count, sel |-> mu.sel,
   orientation |-> mu.orientation]

\* the documents loaded: one value for item 0, or no key at all
RedrawDocs ==
  {[exists |-> TRUE, bad |-> FALSE, kv |-> kv] :
     kv \in {{}, {<<keyOf(0), jsonNumber(2)>>}}}

\* a menu of one RANGE item and one label, as built by a program
InitRedraw ==
  /\ now = 0
  /\ gp = Gp0
  /\ menus = [m \in MenuIds |->
                IF m = 1
                  THEN WithItem(WithItem(NewMenu("VERTICAL"),
                                         makeRange(0, 0, 2, 1)), makeLabel)
                  ELSE NewMenu("VERTICAL")]
  /\ rootMenu = 1
  /\ menuStack = <<1>>
  /\ inputLockUntil = 0
  /\ ctlS = ControlState0
  /\ pad = PadNeutral
  /\ blinkState = FALSE
  /\ lastSave = 0
  /\ sdDoc = NoDoc
  /\ last = Last0
  /\ hist = Hist0

\* a call that leaves menu 1 as mu2; last.arg tells whether what the menu
\* shows has changed
RedrawCall(op, mu2) ==
  /\ menus' = [menus EXCEPT ![1] = mu2]
  /\ last' = [Last0 EXCEPT !.op = op, !.menu = 1,
                           !.preDirty = menus[1].dirty,
                           !.arg = IF Shown(mu2) # Shown(menus[1])
                                     THEN 1 ELSE 0]
  /\ UNCHANGED <<gp, now, menuStack, rootMenu, inputLockUntil, ctlS, pad,
                 blinkState, lastSave, sdDoc, hist>>

RedrawMoveSel ==
  \E delta \in {-1, 1} : RedrawCall("moveSel", moveSel(menus[1], delta))

RedrawAdjust ==
  \E dir \in {-1, 1} :
    RedrawCall("adjust", editAdjust(St, 1, dir, now, TRUE).menus[1])

RedrawAddItem ==
  /\ menus[1].count < MaxRedrawItems
  /\ RedrawCall("addItem", addItem(menus[1], makeLabel))

RedrawSetOrientation ==
  \E o \in {"VERTICAL", "HORIZONTAL"} :
    RedrawCall("setOrientation", setOrientation(menus[1], o))

RedrawSetTheme ==
  \E o \in {"VERTICAL", "HORIZONTAL"} :
    RedrawCall("setTheme", setTheme(menus[1], [orientation |-> o]))

RedrawSetItemText ==
  \E s \in {"", "On"} : RedrawCall("setItemText", setItemText(menus[1], 1, s))

RedrawSetItemEnabled ==
  \E en \in BOOLEAN :
    RedrawCall("setItemEnabled", setItemEnabled(menus[1], 1, en))

RedrawSetItemValue ==
  \E v \in {0, 1} : RedrawCall("setItemValue", setItemValue(menus[1], 0, v))

RedrawLoad ==
  \E doc \in RedrawDocs :
    RedrawCall("loadMenuSettings", loadMenuSettings(menus[1], doc, TRUE).mu)

NextRedraw ==
  \/ DrawItem
  \/ RedrawMoveSel
  \/ RedrawAdjust
  \/ RedrawAddItem
  \/ RedrawSetOrientation
  \/ RedrawSetTheme
  \/ RedrawSetItemText
  \/ RedrawSetItemEnabled
  \/ RedrawSetItemValue
  \/ RedrawLoad

SpecRedraw == InitRedraw /\ [][NextRedraw]_vars

\* C24 (as claimed): after a selection move, an edit adjust, addItem,
\* setTheme, setOrientation, setItemText, setItemEnabled, setItemValue or
\* loadMenuSettings that changed what the menu shows, the dirty flag is set.
C24_ChangeSetsDirty ==
  (/\ last.op \in {"moveSel", "adjust", "addItem", "setTheme",
                   "setOrientation", "setItemText", "setItemEnabled",
                   "setItemValue", "loadMenuSettings"}
   /\ last.arg = 1) =>
    menus[1].dirty

-----------------------------------------------------------------------------
(* The gamepad subsystem polled by loop() (specification SpecPad)          *)

PadTickMs == 1500     \* time between two polls
MaxPadTime == 39300   \* polls are followed while millis() <= MaxPadTime

\* the live controller while pairing is followed: link down, or up and idle
LinkPads == {PadNeutral, [PadNeutral EXCEPT !.connected = TRUE]}

\* after setup(): setupGamepad() has run, millis() is past its delay
InitPad ==
  /\ now = SetupDelayMs
  /\ gp = Gp0
  /\ menus = BuiltMenus
  /\ rootMenu = 1
  /\ menuStack = <<1>>
  /\ inputLockUntil = 0
  /\ ctlS = ControlState0
  /\ pad = PadNeutral
  /\ blinkState = FALSE
  /\ lastSave = 0
  /\ sdDoc = NoDoc
  /\ last = Last0
  /\ hist = Hist0

\* the observations kept over a poll at time t that leaves the statics g:
\* since when the debounced button is down (heldSince), the press edge the
\* polls have seen and no release or new connection has cancelled
\* (pressedAt), the timeouts of the pairing session (timeouts), whether a
\* pairing session was started since the debounced button went down
\* (holdSession) and whether such a session has timed out since (holdTimedOut)
PadHist(h, g, ev, t, short) ==
  [h EXCEPT
     !.heldSince = IF ~g.debounced THEN -1
                   ELSE IF @ = -1 THEN t ELSE @,
     !.pressedAt = IF ~g.debounced THEN -1
                   ELSE IF ~ev.first /\ ~gp.debounced THEN t
                   ELSE IF ev.cb = "connect" THEN -1
                   ELSE @,
     !.timeouts = IF ev.started THEN 0
                  ELSE IF ev.timedOut /\ @ < 2 THEN @ + 1 ELSE @,
     !.shortPolls = IF short THEN @ + 1 ELSE @,
     !.holdSession = IF ~g.debounced THEN FALSE
                     ELSE IF ev.started THEN TRUE ELSE @,
     !.holdTimedOut = IF ~g.debounced THEN FALSE
                      ELSE IF ev.timedOut /\ h.holdSession THEN TRUE ELSE @]

\* loop() calling updateGamepad() after one of the given steps of time:
\* BP32 may deliver a connection or a disconnection, the controller shows
\* one of the given states, the button its level
PollOver(steps, pads, maxT) ==
  \E step \in steps,
     cb \in {"none"} \cup (IF gp.ctl THEN {"disconnect"} ELSE {"connect"}),
     btn \in BOOLEAN :
    \E p \in (IF cb = "connect" \/ (gp.ctl /\ cb # "disconnect")
                THEN pads ELSE {PadNeutral}) :
      \E r \in {updateGamepad(gp, now + step, cb, p, btn)} :
        /\ now + step <= maxT
        /\ now' = now + step
        /\ gp' = r.g
        /\ pad' = p
        /\ last' = [Last0 EXCEPT !.op = "poll", !.ev = r.ev]
        /\ hist' = PadHist(hist, r.g, r.ev, now + step, step < DEBOUNCE_MS)
        /\ UNCHANGED <<menus, menuStack, rootMenu, inputLockUntil, ctlS,
                       blinkState, lastSave, sdDoc>>

Poll == PollOver({PadTickMs}, LinkPads, MaxPadTime)

NextPad == Poll

SpecPad == InitPad /\ [][NextPad]_vars

\* C25 (as claimed): at a poll, pairing mode is entered when the debounced
\* button has been down for HOLD_TIME_MS or more while no controller is
\* connected and pairing is not active, and is entered in no other case.
C25_HoldStartsPairing ==
  last.op = "poll" =>
    (last.ev.started <=>
       /\ hist.heldSince >= 0 /\ now - hist.heldSince >= HOLD_TIME_MS
       /\ ~gp.connected
       /\ ~(last.ev.prePairing /\ last.ev.cb # "connect"))

\* C25 (amended): at a poll, pairing mode is entered exactly when the
\* debounced button is down, no controller is connected, pairing is not
\* active, and the press began with an edge seen by a poll after the first
\* one, HOLD_TIME_MS or more ago, with no release and no new connection
\* since. Entering enables the acceptance of new connections and starts the
\* blink cycle; the button has then been down for HOLD_TIME_MS or more.
C25_PressHeldStartsPairing ==
  last.op = "poll" =>
    /\ last.ev.started <=>
         /\ hist.pressedAt >= 0 /\ now - hist.pressedAt >= HOLD_TIME_MS
         /\ ~gp.connected
         /\ ~(last.ev.prePairing /\ last.ev.cb # "connect")
    /\ last.ev.started =>
         /\ gp.pairingMode /\ gp.accept
         /\ gp.pairingStart = now /\ gp.lastBlink = now /\ gp.led = 0
         /\ hist.heldSince >= 0 /\ now - hist.heldSince >= HOLD_TIME_MS
         /\ ~gp.connected /\ ~last.ev.prePairing

\* pairing mode has been entered by a press that lasted exactly HOLD_TIME_MS
C25_Witness ==
  /\ last.op = "poll" /\ last.ev.started
  /\ now - hist.pressedAt = HOLD_TIME_MS
  /\ gp.pairingMode /\ gp.accept

\* C26 (as claimed): a connection delivered while pairing is active ends
\* pairing mode and disables the acceptance of new connections; after every
\* poll the acceptance is enabled only while pairing mode is active and no
\* controller is connected.
C26_AcceptanceOnlyWhilePairing ==
  last.op = "poll" =>
    /\ (last.ev.prePairing /\ last.ev.cb = "connect") =>
         ~gp.pairingMode /\ ~gp.accept
    /\ gp.accept => gp.pairingMode /\ ~gp.connected

-----------------------------------------------------------------------------
(* The GamepadState snapshot (specification SpecSnapshot: the controller   *)
(* shows sticks, d-pad and buttons; some polls follow at once)             *)

ShortPollMs == 20        \* a poll that follows the one before at once
MaxShortPolls == 2       \* such polls followed at most
MaxSnapshotTime == 4800  \* polls are followed while millis() <= MaxSnapshotTime

\* the live controller: link down, idle, sticks / d-pad / a / x, and
\* b / y / start / select
LivePads ==
  {PadNeutral,
   [PadNeutral EXCEPT !.connected = TRUE],
   [PadNeutral EXCEPT !.connected = TRUE, !.lx = 300, !.ly = -200,
                      !.rx = 7, !.ry = -7, !.dpad = {"up", "left"},
                      !.a = TRUE, !.x = TRUE],
   [PadNeutral EXCEPT !.connected = TRUE, !.b = TRUE, !.y = TRUE,
                      !.start = TRUE, !.select = TRUE]}

PollSnapshot ==
  PollOver({PadTickMs} \cup (IF hist.shortPolls < MaxShortPolls
                               THEN {ShortPollMs} ELSE {}),
           LivePads, MaxSnapshotTime)

NextSnapshot == PollSnapshot

SpecSnapshot == InitPad /\ [][NextSnapshot]_vars

\* C28: after every poll at which no controller is connected (no controller
\* object, or its link down) the snapshot equals GamepadState(): connected
\* false, axes 0, d-pad 0, buttons false.
C28_SnapshotResetWithoutController ==
  (last.op = "poll" /\ ~(gp.ctl /\ pad.connected)) =>
    /\ ~gp.connected
    /\ gp.state = PadNeutral

\* the snapshot held a pressed button and a deflected stick before the poll
\* and the link was lost without a disconnection callback: it is neutral
C28_Witness ==
  /\ last.op = "poll" /\ last.ev.cb = "none"
  /\ gp.ctl /\ ~pad.connected
  /\ last.ev.preState.a /\ last.ev.preState.lx # 0
  /\ gp.state = PadNeutral

\* C29 (as claimed): after every poll at which a controller is connected,
\* every field of the snapshot equals the live controller: the four axes,
\* the d-pad and a, b, x, y, start, select.
C29_SnapshotEqualsController ==
  (last.op = "poll" /\ gp.ctl /\ pad.connected) =>
    /\ gp.connected
    /\ gp.state = pad

-----------------------------------------------------------------------------
(* Touch mode (specification SpecTouch: the sketch's menus switched to     *)
(* InputMode::TOUCH, the root or the settings menu on the stack)           *)

MaxTouchTime == 1000  \* the loop is followed while millis() <= MaxTouchTime

\* the polls followed: no sample, a touch that is no tap, a tap
TouchInputs ==
  {TouchInput(FALSE, FALSE), TouchInput(TRUE, FALSE), TouchInput(TRUE, TRUE)}

\* after setup() with setInputMode(InputMode::TOUCH) on every menu
InitTouch ==
  /\ now = 0
  /\ gp = Gp0
  /\ menus = [m \in MenuIds |-> [BuiltMenus[m] EXCEPT !.mode = "TOUCH"]]
  /\ rootMenu \in {1, 2}
  /\ menuStack = <<rootMenu>>
  /\ inputLockUntil = 0
  /\ ctlS = ControlState0
  /\ pad = TouchInput(FALSE, FALSE)
  /\ blinkState = FALSE
  /\ lastSave = 0
  /\ sdDoc = NoDoc
  /\ last = Last0
  /\ hist = Hist0

LoopTouch == LoopWith(TouchInputs, MaxTouchTime, {TRUE})

NextTouch == LoopTouch

SpecTouch == InitTouch /\ [][NextTouch]_vars

\* C30 (as claimed): in touch mode, on a tick where the tap was already
\* asserted on the tick before, update() neither activates (it returns -1)
\* nor changes the edit mode: one tap held over several ticks acts once.
C30_HeldTapActsOnce ==
  (/\ last.op = "update"
   /\ menus[last.menu].mode = "TOUCH"
   /\ hist.confRun = 2) =>
    /\ last.ret = -1
    /\ menus[last.menu].editing = last.preEditing

-----------------------------------------------------------------------------
(* The input lock in the sketch's menus (specification Spec)               *)

\* C31: an update() made while millis() is below the input lock runs neither
\* handler: no selection move, no adjust, no activation, no change of edit
\* mode, of the stack or of the lock, whatever is pressed. A push sets the
\* lock 150 ms ahead, a handled back edge 200 ms ahead.
C31_LockedUpdateDoesNothing ==
  last.op = "update" =>
    /\ now < last.preLock =>
         /\ ~last.ev.navRan /\ ~last.ev.editRan
         /\ menus[last.menu].sel = last.preSel
         /\ last.ev.adjusts = 0
         /\ getItemValue(menus[last.menu], last.preSel) = last.pre
         /\ last.ret = -1 /\ ~last.ev.pushed /\ ~last.ev.popped
         /\ menus[last.menu].editing = last.preEditing
         /\ menuStack = last.preStack
         /\ inputLockUntil = last.preLock
    /\ last.ev.pushed => inputLockUntil = now + PushLockMs
    /\ (last.ev.navRan /\ last.ev.backSeen /\ ~last.ev.pushed) =>
         inputLockUntil = now + BackLockMs

\* an update() under the lock set by a push, with a direction and confirm
\* pressed: the pushed menu is untouched
C31_Witness ==
  /\ last.op = "update" /\ now < last.preLock
  /\ last.preLock = hist.prevNow + PushLockMs
  /\ pad.a /\ pad.dpad # {}
  /\ Len(menuStack) = 2
  /\ menus[last.menu].sel = 0

-----------------------------------------------------------------------------
(* The stick threshold (specification SpecDeadzone: the sketch's menus     *)
(* with settings.deadzone of the root menu set by the host, the stick      *)
(* displaced below, between and beyond the settings)                       *)

MaxDeadzoneTime == 300  \* the loop is followed while millis() <= this

\* the values the host stores in rootMenu.settings.deadzone
DeadzoneChoices == {100, DEADZONE, 300}

\* stick positions on both sides of every choice
StickAxis == {-350, -250, -150, 0, 150, 250, 350}

\* a linked controller with the left stick anywhere, the d-pad idle or left
StickInputs ==
  {[PadNeutral EXCEPT !.connected = TRUE, !.lx = x, !.ly = y, !.dpad = dp] :
     x \in StickAxis, y \in {-250, 0, 150}, dp \in {{}, {"left"}}}

\* after setup() with rootMenu.settings.deadzone assigned
InitDeadzone ==
  /\ now = 0
  /\ gp = Gp0
  /\ \E dz \in DeadzoneChoices :
       menus = [m \in MenuIds |->
                  IF m = 1 THEN [BuiltMenus[m] EXCEPT !.deadzone = dz]
                  ELSE BuiltMenus[m]]
  /\ rootMenu = 1
  /\ menuStack = <<rootMenu>>
  /\ inputLockUntil = 0
  /\ ctlS = ControlState0
  /\ pad = PadNeutral
  /\ blinkState = FALSE
  /\ lastSave = 0
  /\ sdDoc = NoDoc
  /\ last = Last0
  /\ hist = Hist0

LoopDeadzone == LoopWith(StickInputs, MaxDeadzoneTime, {TRUE})

NextDeadzone == LoopDeadzone

SpecDeadzone == InitDeadzone /\ [][NextDeadzone]_vars

\* C32 (as claimed): after an update() in gamepad mode a direction is
\* asserted exactly when its d-pad bit is set or the left stick is beyond
\* the menu's settings.deadzone in that direction.
C32_DirectionFollowsDeadzoneSetting ==
  (last.op = "update" /\ pad.connected) =>
    LET dz == menus[last.menu].deadzone
    IN /\ ctlS.up = ("up" \in pad.dpad \/ pad.ly < -dz)
       /\ ctlS.down = ("down" \in pad.dpad \/ pad.ly > dz)
       /\ ctlS.left = ("left" \in pad.dpad \/ pad.lx < -dz)
       /\ ctlS.right = ("right" \in pad.dpad \/ pad.lx > dz)

-----------------------------------------------------------------------------
(* The two repeat timers side by side (specification SpecRepeat: the       *)
(* horizontal root menu browsed and the settings menu in edit mode, both   *)
(* updated in every loop with the same controller levels)                  *)

MaxRepeatTime == 1500  \* the loop is followed while millis() <= this

\* the direction levels followed, confirm and back released
LevelInputs ==
  {PadWith(dp, FALSE, FALSE) :
     dp \in {{}, {"left"}, {"right"}, {"up"}, {"down"},
             {"left", "right"}, {"left", "up"}, {"right", "down"}}}

\* after setup(), the first item of the settings menu opened for editing
\* and both timers idle
InitRepeat ==
  /\ now = 0
  /\ gp = Gp0
  /\ menus = [m \in MenuIds |->
                IF m = 2 THEN [BuiltMenus[m] EXCEPT !.editing = TRUE]
                ELSE BuiltMenus[m]]
  /\ rootMenu = 1
  /\ menuStack = <<rootMenu>>
  /\ inputLockUntil = 0
  /\ ctlS = ControlState0
  /\ pad = PadNeutral
  /\ blinkState = FALSE
  /\ lastSave = 0
  /\ sdDoc = NoDoc
  /\ last = Last0
  /\ hist = Hist0

\* one loop(): rootMenu.update() and then settingsMenu.update() at the same
\* millis() with the same controller snapshot
LoopRepeat ==
  \E p \in LevelInputs :
    LET t == now + TickMs
    IN /\ t <= MaxRepeatTime
       /\ now' = t
       /\ pad' = p
       /\ UNCHANGED <<rootMenu, gp>>
       /\ \E r1 \in {update(St, 1, t, p, TRUE)} :
          \E r \in {update(r1, 2, t, p, TRUE)} :
            /\ menus' = r.menus
            /\ menuStack' = r.menuStack
            /\ inputLockUntil' = r.inputLockUntil
            /\ ctlS' = r.ctlS
            /\ blinkState' = r.blinkState
            /\ lastSave' = r.lastSave
            /\ sdDoc' = r.sdDoc
            /\ last' = [Last0 EXCEPT
                          !.op = "update", !.menu = 2, !.ret = r.ret,
                          !.ev = [r1.ev EXCEPT !.editRan = r.ev.editRan,
                                               !.adjusts = r.ev.adjusts],
                          !.preStack = menuStack,
                          !.pre = getItemValue(menus[2], menus[2].sel),
                          !.preSel = menus[1].sel,
                          !.preLock = inputLockUntil,
                          !.preEditing = menus[2].editing]
            /\ hist' = [hist EXCEPT !.prevNow = now]

NextRepeat == LoopRepeat

SpecRepeat == InitRepeat /\ [][NextRepeat]_vars

\* C33: fed the same levels from idle, the edit timer adjusts on exactly
\* the ticks on which the navigation timer of a horizontal menu moves (once
\* each), both timers hold the same direction, start and next-repeat time,
\* and without left or right no adjust is made whatever up and down show.
C33_EditTimerIsNavTimer ==
  last.op = "update" =>
    /\ last.ev.navRan /\ last.ev.editRan
    /\ (last.ev.adjusts = 1) = (last.ev.branch \in {"fresh", "repeat"})
    /\ last.ev.adjusts \in {0, 1}
    /\ menus[2].editActive = menus[1].navActive
    /\ menus[2].editDir = menus[1].navDir
    /\ menus[1].navActive =>
         /\ menus[2].editStart = menus[1].navStart
         /\ menus[2].editNext = menus[1].navNext
    /\ (~ctlS.left /\ ~ctlS.right) => last.ev.adjusts = 0

\* a hold long enough for the fast rate: a repeat fired in both timers and
\* the next one is REPEAT_FAST_MS ahead
C33_Witness ==
  /\ last.op = "update"
  /\ last.ev.branch = "repeat" /\ last.ev.adjusts = 1
  /\ now - menus[2].editStart >= REPEAT_AFTER_MS
  /\ menus[2].editNext = now + REPEAT_FAST_MS
  /\ menus[1].navNext = now + REPEAT_FAST_MS

\* up held alone: the navigation timer of the horizontal menu and the edit
\* timer both stay idle
C33_WitnessUpDown ==
  /\ last.op = "update" /\ ctlS.up /\ ~ctlS.left /\ ~ctlS.right
  /\ last.ev.branch = "idle" /\ last.ev.adjusts = 0

-----------------------------------------------------------------------------
(* The pairing button over a whole hold (specification SpecPad)            *)

\* millis() at the first updateGamepad() of the polls followed
FirstPollAt == SetupDelayMs + PadTickMs

\* C34: the first poll starts no hold timer and enters no pairing mode, and
\* while the button has been down at every poll since the first one the hold
\* timer stays unset and pairing mode is not entered, however long the hold.
C34_HeldAtBootNeverPairs ==
  last.op = "poll" =>
    /\ last.ev.first =>
         /\ now = FirstPollAt
         /\ gp.pressStart = 0 /\ ~last.ev.started /\ ~gp.pairingMode
         /\ gp.buttonLast = gp.debounced
    /\ hist.heldSince = FirstPollAt =>
         /\ gp.pressStart = 0 /\ hist.pressedAt = -1
         /\ ~last.ev.started /\ ~gp.pairingMode /\ ~gp.accept

\* the button down since the first poll for twice HOLD_TIME_MS, no
\* controller linked: no pairing
C34_Witness ==
  /\ last.op = "poll" /\ hist.heldSince = FirstPollAt
  /\ now - hist.heldSince >= 2 * HOLD_TIME_MS
  /\ gp.debounced /\ ~gp.connected /\ ~gp.ctl
  /\ ~gp.pairingMode

-----------------------------------------------------------------------------
(* The value update() returns (specification SpecEmpty: a menu that is     *)
(* current from its construction on, confirm and directions received       *)
(* before and between the addItem calls)                                   *)

MaxEmptyTime == 600  \* the loop is followed while millis() <= MaxEmptyTime

\* nothing, next, confirm, next with confirm
EmptyInputs ==
  {PadWith({}, FALSE, FALSE), PadWith({"down"}, FALSE, FALSE),
   PadWith({}, TRUE, FALSE), PadWith({"down"}, TRUE, FALSE)}

\* what _items[i] yields for i past the array: memory that reads as a label,
\* as an item with a submenu link, or as an editable item
StrayItems == {makeLabel, Linked(makeLabel, 3), makeRange(1, 0, 2, 1)}

LoopEmpty == LoopStray(EmptyInputs, MaxEmptyTime, {TRUE}, StrayItems)

NextEmpty == BuildAdd \/ LoopEmpty

SpecEmpty == InitBuild /\ [][NextEmpty]_vars

\* C35 (as claimed): update() returns -1 or the index of an existing item
\* of the menu that has no submenu link and edit kind NONE, for menus of
\* every size, the empty menu included.
C35_ReturnsExistingPlainItem ==
  last.op = "update" =>
    \/ last.ret = -1
    \/ /\ 0 <= last.ret /\ last.ret < menus[last.menu].count
       /\ ItemAt(menus[last.menu], last.ret).submenu = NullMenu
       /\ ItemAt(menus[last.menu], last.ret).edit = "NONE"

-----------------------------------------------------------------------------
(* Edit mode in the sketch's menus (specification Spec)                    *)

\* the items of menu mu other than the selected one
OtherItems(mu) ==
  [i \in (DOMAIN mu.items) \ {mu.sel + 1} |-> mu.items[i]]

\* C36 (as claimed): a menu in edit mode has an item of kind RANGE or
\* ARRAY without a submenu link under its selection, and over a loop() that
\* finds the menu in edit mode and leaves it there neither its selection nor
\* the menu stack nor any of its items but the selected one changes, whose
\* kind, bounds and link stay.
C36_EditModeKeepsSelection ==
  /\ [](\A m \in MenuIds :
          menus[m].editing =>
            /\ menus[m].sel < menus[m].count
            /\ ItemAt(menus[m], menus[m].sel).edit \in {"RANGE", "ARRAY"}
            /\ ItemAt(menus[m], menus[m].sel).submenu = NullMenu)
  /\ [][\A m \in MenuIds :
          (menus[m].editing /\ menus'[m].editing) =>
            /\ menus'[m].sel = menus[m].sel
            /\ menuStack' = menuStack
            /\ menus'[m].count = menus[m].count
            /\ OtherItems(menus'[m]) = OtherItems(menus[m])
            /\ [ItemAt(menus'[m], menus[m].sel) EXCEPT !.value = 0, !.index = 0]
                 = [ItemAt(menus[m], menus[m].sel) EXCEPT !.value = 0,
                                                          !.index = 0]]_vars

-----------------------------------------------------------------------------
(* Mechanical mode (specification SpecMech: the sketch's menus switched to *)
(* InputMode::MECH on a board with every pin wired, the root or the        *)
(* settings menu on the stack)                                             *)

MaxMechTime == 800  \* the loop is followed while millis() <= MaxMechTime

\* the polls followed: nothing, one button, the encoder turned or pressed,
\* start with select, and pairs of a button with the encoder
MechInputs ==
  {MechInput(MechPins, low) :
     low \in {{}, {"up"}, {"down"}, {"ok"}, {"back"}, {"encBtn"}, {"encA"},
              {"encB"}, {"start", "select"}, {"down", "encB"},
              {"up", "encA"}}}

\* after setup() with setInputMode(InputMode::MECH) on every menu
InitMech ==
  /\ now = 0
  /\ gp = Gp0
  /\ menus = [m \in MenuIds |-> [BuiltMenus[m] EXCEPT !.mode = "MECH"]]
  /\ rootMenu \in {1, 2}
  /\ menuStack = <<rootMenu>>
  /\ inputLockUntil = 0
  /\ ctlS = ControlState0
  /\ pad = MechInput(MechPins, {})
  /\ blinkState = FALSE
  /\ lastSave = 0
  /\ sdDoc = NoDoc
  /\ last = Last0
  /\ hist = Hist0

LoopMech == LoopWith(MechInputs, MaxMechTime, {TRUE})

NextMech == LoopMech

SpecMech == InitMech /\ [][NextMech]_vars

\* C37: in mechanical mode left and right are never asserted, no update()
\* adjusts a value (every item keeps the value it was built with, also in
\* edit mode), and no update() moves the selection of a horizontal menu.
C37_MechanicalNeverLeftRight ==
  /\ ~ctlS.left /\ ~ctlS.right
  /\ \A m \in MenuIds :
       /\ menus[m].items = BuiltMenus[m].items
       /\ menus[m].orientation = "HORIZONTAL" => menus[m].sel = 0
       /\ ~menus[m].editActive
  /\ last.op = "update" =>
       /\ last.ev.adjusts = 0
       /\ menus[last.menu].orientation = "HORIZONTAL" =>
            last.ev.d = 0 /\ menus[last.menu].sel = last.preSel

\* the edit handler has run on the settings menu with the encoder turned
\* and down pressed, and the edited value is the one before
C37_Witness ==
  /\ last.op = "update" /\ last.menu = 2
  /\ last.preEditing /\ last.ev.editRan /\ menus[2].editing
  /\ pad.low = {"down", "encB"}
  /\ getItemValue(menus[2], menus[2].sel) = last.pre

-----------------------------------------------------------------------------
(* Pairing sessions of one hold (specification SpecPad)                    *)

\* C38 (as claimed): a hold of the pairing button that has started a pairing
\* session and has lasted through the timeout of that session starts no
\* second session: pairing mode is not entered while the debounced button
\* has stayed down since.
C38_NoSessionAfterTimeoutInHold ==
  (last.op = "poll" /\ last.ev.started) => ~hist.holdTimedOut

-----------------------------------------------------------------------------
(* Presses that begin under the input lock (specification Spec)            *)

\* C39: while confirm has been held since a tick that fell under the input
\* lock, no update() activates (none returns an index, pushes a menu, or
\* enters or leaves edit mode on a confirm edge), and while back has been
\* held since such a tick no update() pops or handles a back edge; the
\* mapper has recorded the level on every tick of the hold.
C39_PressUnderLockNeverActs ==
  last.op = "update" =>
    /\ hist.confLocked =>
         /\ ctlS.confirm /\ ~last.ev.confirmSeen
         /\ hist.confRun = 2 => (ctlS.confirmLast /\ ~last.ev.edgeC)
         /\ last.ret = -1 /\ ~last.ev.pushed
         /\ ~(menus[last.menu].editing /\ ~last.preEditing)
    /\ hist.backLocked =>
         /\ ctlS.back /\ ~last.ev.backSeen
         /\ hist.backRun = 2 => (ctlS.backLast /\ ~last.ev.edgeB)
         /\ ~last.ev.popped
         /\ Len(menuStack) >= Len(last.preStack)

\* confirm pressed under the lock of a back edge and still held after the
\* lock ran out: the handler runs on a plain item and nothing is activated
C39_Witness ==
  /\ last.op = "update" /\ hist.confLocked /\ hist.confRun = 2
  /\ now >= last.preLock /\ last.ev.navRan
  /\ ItemAt(menus[last.menu], menus[last.menu].sel).edit = "NONE"
  /\ ItemAt(menus[last.menu], menus[last.menu].sel).submenu = NullMenu
  /\ last.ret = -1

\* back pressed under the lock of a push and still held after the lock ran
\* out: the pushed menu stays on the stack
C39_WitnessBack ==
  /\ last.op = "update" /\ hist.backLocked /\ hist.backRun = 2
  /\ now >= last.preLock /\ last.ev.navRan
  /\ Len(menuStack) = 2 /\ menuStack = last.preStack

====
